---- MODULE Spec2Model ----
(***************************************************************************)
(* Model of the ORB scanner proxy: the Polygon WebSocket relay (Spec,      *)
(* PassthroughFairSpec) and its HTTP API: the gainers routes (GainersSpec, *)
(* EnrichSpec), the historical route (HistoricalSpec), the caches          *)
(* (CacheSpec), the news route (NewsSpec) and the shared tickers           *)
(* (SharedSpec).                                                           *)
(*                                                                         *)
(* The repository holds three implementations of the /ws relay:            *)
(*   "server_js" : src/server.js          one shared upstream socket,      *)
(*                                        reconnect timer                  *)
(*   "part_002"  : src/unnamed/part_002   one shared upstream socket,      *)
(*                                        opened lazily, no timer          *)
(*   "part_006"  : src/unnamed/part_006   one upstream socket per client   *)
(* The variable impl says which of them the process runs.                  *)
(*                                                                         *)
(* Sockets are objects of the ws library: readyState is CONNECTING, OPEN,  *)
(* CLOSING or CLOSED, and the library emits open, message, error and close *)
(* events, each of which runs the handler the program registered for it.   *)
(***************************************************************************)
EXTENDS Integers, Sequences, FiniteSets, TLC

\* ------------------------------------------------------------------ bounds
\* A run is bounded by the number of things its environment may bring into
\* being: upstream sockets constructed, downstream clients connected,
\* upstream frames pushed and client messages sent, MaxInputs in all.
MaxInputs == 5

Impls == {"server_js", "part_002", "part_006"}
SocketIds == 1..MaxInputs
ClientIds == 1..MaxInputs

\* ---------------------------------------------------------------- messages
\* The relay's own credential (process.env.POLYGON_API_KEY).
POLYGON_API_KEY == "relayKey"

\* A message is the payload of one WebSocket frame:
\*   json   the text parses with JSON.parse
\*   utf8   the bytes are valid UTF-8 (always so for a text frame)
\*   canon  the text is what JSON.stringify prints for its value
Msg(action, params, json, utf8, canon) ==
    [action |-> action, params |-> params, json |-> json, utf8 |-> utf8, canon |-> canon]

\* No message yet.
NoMsg == Msg("", "", FALSE, FALSE, FALSE)

\* JSON.stringify({ action: 'auth', params: POLYGON_API_KEY })
RelayAuth == Msg("auth", POLYGON_API_KEY, TRUE, TRUE, TRUE)

\* What a downstream client may send.
ClientMsgs ==
    { Msg("subscribe", "T.AAPL", TRUE, TRUE, FALSE),
      Msg("auth", "clientKey", TRUE, TRUE, TRUE),
      Msg("", "junk", FALSE, FALSE, FALSE) }

\* What the upstream feed may push.
Frames ==
    { Msg("status", "ok", TRUE, TRUE, TRUE),
      Msg("", "plain text", FALSE, TRUE, FALSE),
      Msg("T", "bytes", TRUE, FALSE, FALSE) }

\* Buffer.prototype.toString(): UTF-8 decoding; every invalid byte sequence
\* becomes U+FFFD, so the string sent on is no longer the bytes received.
toString(m) ==
    IF m.utf8 THEN m ELSE [m EXCEPT !.utf8 = TRUE, !.params = "U+FFFD"]

\* JSON.parse(data) succeeds (data is coerced with toString first).
JSONparses(m) == m.json

\* JSON.stringify(JSON.parse(message)): the canonical text of the same value.
JSONstringify(m) == [toString(m) EXCEPT !.canon = TRUE]

\* ------------------------------------------------------------------- state
VARIABLES
    impl,             \* which relay implementation runs
    up,               \* upstream sockets: id -> [rs, sent, owner, abort]
    nUp,              \* upstream sockets constructed so far
    polygonSocket,    \* server.js polygonSocket (0 = null)
    polygonWs,        \* part_002 polygonWs (0 = null)
    polygonConnected, \* server.js polygonConnected
    timers,           \* pending setTimeout(connectPolygonWS, 2000) callbacks
    cl,               \* downstream sockets: id -> [rs, recv, upstream]
    upstreamClients,  \* server.js upstreamClients
    wssClients,       \* wss.clients, kept by the ws library
    nFrames,          \* frames the feed has pushed so far
    lastFrame,        \* the latest of them, <<socket, payload>>
    nMsgs,            \* messages the clients have sent so far
    lastMsg,          \* the latest of them, <<client, payload>>
    crashed           \* an exception left a handler uncaught: the process exited

\* The HTTP side of the same process (part_006): one request to a gainers
\* route, from its arrival to its response.
VARIABLES
    now,              \* the clock, Date.now(), in hours
    dst,              \* what daylight saving time does in New York in this window
    req,              \* the request: [route, limit] (limit is req.query.limit)
    pc,               \* where the handler stands (which await it is suspended at)
    loop_i,           \* findLastTradingDayNY: the loop counter i
    loop_d,           \* findLastTradingDayNY: d, the instant whose date is probed next
    probes,           \* the fetchGrouped calls made so far: <<[dateStr, answer], ...>>
    snapshot,         \* what the snapshot source answered, and at which instant
    dateStr,          \* computeGainers: the date findLastTradingDayNY returned
    grouped,          \* computeGainers: the rows findLastTradingDayNY returned
    tickers,          \* GET /api/gainers: the tickers collected so far
    res               \* the response sent, NoResponse before

relayVars == <<impl, up, nUp, polygonSocket, polygonWs, polygonConnected, timers, cl,
               upstreamClients, wssClients, nFrames, lastFrame, nMsgs, lastMsg, crashed>>

httpVars == <<now, dst, req, pc, loop_i, loop_d, probes, snapshot, dateStr, grouped, tickers, res>>

\* The caches of the HTTP side (part_006: FUND_CACHE, NEWS_CACHE; server.js:
\* cache). A Map is the sequence of its entries in insertion order.
VARIABLES
    clock,            \* the clock, Date.now(), in ticks (of 30 s on the news route)
    FUND_CACHE,       \* part_006 FUND_CACHE: <<[key, val, exp], ...>>
    NEWS_CACHE,       \* part_006 NEWS_CACHE: <<[key, val, exp], ...>>
    cache,            \* server.js cache: <<[key, ts, ttlMs, data], ...>>
    got,              \* the latest lookup: the entry it found and what it returned
    put,              \* the latest store: its key and the minKey it deleted
    nCacheOps         \* cache calls and clock ticks of the run so far

cacheVars == <<clock, FUND_CACHE, NEWS_CACHE, cache, got, put, nCacheOps>>

\* The rate limiter of GET /api/news/:symbol (part_006) and the requests to
\* that route.
VARIABLES
    newsRateMap,      \* part_006 newsRateMap: <<[key, count, since], ...>>
    newsLog,          \* the requests so far: <<[ip, at, status, upstream], ...>>
    awaiting          \* the requests suspended at await makeMassiveRequest

rateVars == <<newsRateMap, newsLog, awaiting>>

\* The shared tickers of part_006 and the latest request to their routes.
VARIABLES
    sharedTickers,    \* part_006 sharedTickers: <<[key, symbol, addedAt, addedBy], ...>>
    currentTradingDay,\* part_006 currentTradingDay
    served,           \* the latest request to /api/shared-tickers: [method, at]
    posted            \* per ticker, when its latest POST succeeded if none deleted it since

sharedVars == <<sharedTickers, currentTradingDay, served, posted>>

\* The enrichment of GET /gainers (part_006): limitedMap over the rows.
VARIABLES
    gainers_data,     \* GET /gainers: data, whose results are the rows being enriched
    enrich_i,         \* limitedMap: the index i its runners share
    inflight,         \* limitedMap: the rows whose reference-data call is outstanding
    enrich_out        \* limitedMap: out, "empty" where nothing was stored yet

enrichVars == <<gainers_data, enrich_i, inflight, enrich_out>>

apiVars == <<cacheVars, rateVars, sharedVars, enrichVars>>

\* What the cache functions, GET /api/news/:symbol, the routes of the shared
\* tickers and GET /gainers leave alone.
beyondCaches == <<relayVars, httpVars, rateVars, sharedVars, enrichVars>>
beyondNews == <<relayVars, now, dst, req, pc, loop_i, loop_d, probes, snapshot, dateStr,
                grouped, tickers, sharedVars, enrichVars>>
beyondShared == <<relayVars, dst, req, pc, loop_i, loop_d, probes, snapshot, dateStr,
                  grouped, tickers, cacheVars, rateVars, enrichVars>>
beyondGainers == <<relayVars, clock, NEWS_CACHE, cache, put, nCacheOps, rateVars, sharedVars>>

vars == <<relayVars, httpVars, apiVars>>

NoSocket == [rs |-> "NONE", sent |-> <<>>, owner |-> 0, abort |-> FALSE]
NoClient == [rs |-> "NONE", recv |-> <<>>, upstream |-> 0]

\* new WebSocket('wss://socket.polygon.io/stocks')
NewSocket(owner) == [rs |-> "CONNECTING", sent |-> <<>>, owner |-> owner, abort |-> FALSE]

\* ws.send(data) on socket record s: the library throws while CONNECTING,
\* queues the frame while OPEN and drops it without a callback otherwise.
SendOn(s, m, from) ==
    IF s.rs = "OPEN" THEN [s EXCEPT !.sent = Append(@, [msg |-> m, from |-> from])] ELSE s

\* What the run has used of its bound, and whether n more inputs fit.
Used == nUp + Cardinality({c \in ClientIds : cl[c].rs # "NONE"}) + nFrames + nMsgs
Room(n) == Used + n <= MaxInputs

\* Downstream sockets are numbered in the order in which they connect.
NextClient(c) == cl[c].rs = "NONE" /\ \A d \in ClientIds : d < c => cl[d].rs # "NONE"

Live(s) == up[s].rs \in {"CONNECTING", "OPEN"}
LiveSockets == {s \in SocketIds : Live(s)}

\* ------------------------------------------------------------ environment
\* The peer starts the closing handshake (or the relay called close()):
\* readyState becomes CLOSING, no handler runs until the close event.
UpClosing(s) ==
    /\ ~crashed
    /\ up[s].rs = "OPEN"
    /\ up' = [up EXCEPT ![s].rs = "CLOSING"]
    /\ UNCHANGED <<httpVars, apiVars, impl, nUp, polygonSocket, polygonWs, polygonConnected, timers, cl,
                   upstreamClients, wssClients, nFrames, lastFrame, nMsgs, lastMsg, crashed>>

ClientClosing(c) ==
    /\ ~crashed
    /\ cl[c].rs = "OPEN"
    /\ cl' = [cl EXCEPT ![c].rs = "CLOSING"]
    /\ UNCHANGED <<httpVars, apiVars, impl, up, nUp, polygonSocket, polygonWs, polygonConnected, timers,
                   upstreamClients, wssClients, nFrames, lastFrame, nMsgs, lastMsg, crashed>>

\* ------------------------------------------------- src/server.js (shared)
\* function connectPolygonWS(): the early return, then the new socket.
connectPolygonWS ==
    IF polygonSocket # 0 /\ up[polygonSocket].rs \in {"OPEN", "CONNECTING"}
    THEN UNCHANGED <<up, nUp, polygonSocket>>
    ELSE /\ Room(1)
         /\ nUp' = nUp + 1
         /\ up' = [up EXCEPT ![nUp + 1] = NewSocket(0)]
         /\ polygonSocket' = nUp + 1

\* setTimeout(connectPolygonWS, 2000) fires.
TimerFires ==
    /\ ~crashed /\ impl = "server_js"
    /\ timers > 0
    /\ timers' = timers - 1
    /\ connectPolygonWS
    /\ UNCHANGED <<httpVars, apiVars, impl, polygonWs, polygonConnected, cl, upstreamClients, wssClients,
                   nFrames, lastFrame, nMsgs, lastMsg, crashed>>

\* Faulty variant of polygonSocket_open: the auth message is sent on the first
\* connection only, not after a reconnect.
polygonSocket_open_first_only(s) ==
    /\ ~crashed /\ impl = "server_js"
    /\ up[s].rs = "CONNECTING"
    /\ polygonConnected' = TRUE
    /\ up' = IF s = 1 THEN [up EXCEPT ![s] = SendOn([@ EXCEPT !.rs = "OPEN"], RelayAuth, 0)]
             ELSE [up EXCEPT ![s].rs = "OPEN"]
    /\ UNCHANGED <<httpVars, apiVars, impl, nUp, polygonSocket, polygonWs, timers, cl, upstreamClients,
                   wssClients, nFrames, lastFrame, nMsgs, lastMsg, crashed>>

\* Faulty variant of polygonSocket_open: the handler does not send the auth
\* message itself, it leaves that to a later callback.
polygonSocket_open_defers_auth(s) ==
    /\ ~crashed /\ impl = "server_js"
    /\ up[s].rs = "CONNECTING"
    /\ polygonConnected' = TRUE
    /\ up' = [up EXCEPT ![s].rs = "OPEN"]
    /\ UNCHANGED <<httpVars, apiVars, impl, nUp, polygonSocket, polygonWs, timers, cl, upstreamClients,
                   wssClients, nFrames, lastFrame, nMsgs, lastMsg, crashed>>

\* polygonSocket.on('open'): the auth message goes out on the socket the
\* variable polygonSocket names when the handler runs.
polygonSocket_open(s) ==
    /\ ~crashed /\ impl = "server_js"
    /\ up[s].rs = "CONNECTING"
    /\ polygonConnected' = TRUE
    /\ LET up1 == [up EXCEPT ![s].rs = "OPEN"]
           t == polygonSocket
       IN  /\ crashed' = (up1[t].rs = "CONNECTING")
           /\ up' = [up1 EXCEPT ![t] = SendOn(up1[t], RelayAuth, 0)]
    /\ UNCHANGED <<httpVars, apiVars, impl, nUp, polygonSocket, polygonWs, timers, cl, upstreamClients,
                   wssClients, nFrames, lastFrame, nMsgs, lastMsg>>

\* Faulty variant of polygonSocket_message: the loop stops after the first
\* subscriber it has sent to.
polygonSocket_message_first_only(s, m) ==
    /\ ~crashed /\ impl = "server_js"
    /\ up[s].rs = "OPEN"
    /\ Room(1)
    /\ nFrames' = nFrames + 1
    /\ lastFrame' = <<s, m>>
    /\ LET open == {c \in upstreamClients : cl[c].rs = "OPEN"}
       IN  cl' = [c \in ClientIds |->
                    IF c \in open /\ \A d \in open : c <= d
                    THEN [cl[c] EXCEPT !.recv = Append(@, m)]
                    ELSE cl[c]]
    /\ UNCHANGED <<httpVars, apiVars, impl, up, nUp, polygonSocket, polygonWs, polygonConnected, timers,
                   upstreamClients, wssClients, nMsgs, lastMsg, crashed>>

\* Faulty variant of polygonSocket_message: a frame is put before the frames
\* a subscriber already has, not after them.
polygonSocket_message_newest_first(s, m) ==
    /\ ~crashed /\ impl = "server_js"
    /\ up[s].rs = "OPEN"
    /\ Room(1)
    /\ nFrames' = nFrames + 1
    /\ lastFrame' = <<s, m>>
    /\ cl' = [c \in ClientIds |->
                IF c \in upstreamClients /\ cl[c].rs = "OPEN"
                THEN [cl[c] EXCEPT !.recv = <<m>> \o @]
                ELSE cl[c]]
    /\ UNCHANGED <<httpVars, apiVars, impl, up, nUp, polygonSocket, polygonWs, polygonConnected, timers,
                   upstreamClients, wssClients, nMsgs, lastMsg, crashed>>

\* polygonSocket.on('message'): fan out to upstreamClients.
polygonSocket_message(s, m) ==
    /\ ~crashed /\ impl = "server_js"
    /\ up[s].rs = "OPEN"
    /\ Room(1)
    /\ nFrames' = nFrames + 1
    /\ lastFrame' = <<s, m>>
    /\ cl' = [c \in ClientIds |->
                IF c \in upstreamClients /\ cl[c].rs = "OPEN"
                THEN [cl[c] EXCEPT !.recv = Append(@, m)]
                ELSE cl[c]]
    /\ UNCHANGED <<httpVars, apiVars, impl, up, nUp, polygonSocket, polygonWs, polygonConnected, timers,
                   upstreamClients, wssClients, nMsgs, lastMsg, crashed>>

\* polygonSocket.on('close'): schedule the reconnect.
polygonSocket_close(s) ==
    /\ ~crashed /\ impl = "server_js"
    /\ up[s].rs \in {"OPEN", "CLOSING"}
    /\ up' = [up EXCEPT ![s].rs = "CLOSED"]
    /\ polygonConnected' = FALSE
    /\ timers' = timers + 1
    /\ UNCHANGED <<httpVars, apiVars, impl, nUp, polygonSocket, polygonWs, cl, upstreamClients, wssClients,
                   nFrames, lastFrame, nMsgs, lastMsg, crashed>>

\* Faulty variant of polygonSocket_error: the error handler schedules a reconnect
\* of its own, beside the one the close handler schedules.
polygonSocket_error_reconnects(s) ==
    /\ ~crashed /\ impl = "server_js"
    /\ up[s].rs \in {"CONNECTING", "OPEN"}
    /\ up' = [up EXCEPT ![s].rs = "CLOSING"]
    /\ timers' = timers + 1
    /\ UNCHANGED <<httpVars, apiVars, impl, nUp, polygonSocket, polygonWs, polygonConnected, cl,
                   upstreamClients, wssClients, nFrames, lastFrame, nMsgs, lastMsg, crashed>>

\* polygonSocket.on('error'): only logs; the library emits close afterwards.
polygonSocket_error(s) ==
    /\ ~crashed /\ impl = "server_js"
    /\ up[s].rs \in {"CONNECTING", "OPEN"}
    /\ up' = [up EXCEPT ![s].rs = "CLOSING"]
    /\ UNCHANGED <<httpVars, apiVars, impl, nUp, polygonSocket, polygonWs, polygonConnected, timers, cl,
                   upstreamClients, wssClients, nFrames, lastFrame, nMsgs, lastMsg, crashed>>

\* wss.on('connection'): register the client.
wss_connection(c) ==
    /\ ~crashed /\ impl = "server_js"
    /\ NextClient(c) /\ Room(1)
    /\ cl' = [cl EXCEPT ![c].rs = "OPEN"]
    /\ upstreamClients' = upstreamClients \cup {c}
    /\ wssClients' = wssClients \cup {c}
    /\ UNCHANGED <<httpVars, apiVars, impl, up, nUp, polygonSocket, polygonWs, polygonConnected, timers,
                   nFrames, lastFrame, nMsgs, lastMsg, crashed>>

\* Faulty variant of ws_message: the readyState test is missing; send() on a socket
\* that is still CONNECTING throws out of the handler.
ws_message_unguarded(c, m) ==
    /\ ~crashed /\ impl = "server_js"
    /\ cl[c].rs = "OPEN"
    /\ Room(1)
    /\ nMsgs' = nMsgs + 1
    /\ lastMsg' = <<c, m>>
    /\ up' = [up EXCEPT ![polygonSocket] = SendOn(@, m, c)]
    /\ crashed' = (up[polygonSocket].rs = "CONNECTING")
    /\ UNCHANGED <<httpVars, apiVars, impl, nUp, polygonSocket, polygonWs, polygonConnected, timers, cl,
                   upstreamClients, wssClients, nFrames, lastFrame>>

\* ws.on('message'): forward the raw message when the upstream is OPEN.
ws_message(c, m) ==
    /\ ~crashed /\ impl = "server_js"
    /\ cl[c].rs = "OPEN"
    /\ Room(1)
    /\ nMsgs' = nMsgs + 1
    /\ lastMsg' = <<c, m>>
    /\ up' = IF polygonSocket # 0 /\ up[polygonSocket].rs = "OPEN"
             THEN [up EXCEPT ![polygonSocket] = SendOn(@, m, c)]
             ELSE up
    /\ UNCHANGED <<httpVars, apiVars, impl, nUp, polygonSocket, polygonWs, polygonConnected, timers, cl,
                   upstreamClients, wssClients, nFrames, lastFrame, crashed>>

\* Faulty variant of ws_close: the handler forgets upstreamClients.delete(ws).
ws_close_keeps(c) ==
    /\ ~crashed /\ impl = "server_js"
    /\ cl[c].rs \in {"OPEN", "CLOSING"}
    /\ cl' = [cl EXCEPT ![c].rs = "CLOSED"]
    /\ wssClients' = wssClients \ {c}
    /\ UNCHANGED <<httpVars, apiVars, impl, up, nUp, polygonSocket, polygonWs, polygonConnected, timers,
                   upstreamClients, nFrames, lastFrame, nMsgs, lastMsg, crashed>>

\* ws.on('close'): unregister the client.
ws_close(c) ==
    /\ ~crashed /\ impl = "server_js"
    /\ cl[c].rs \in {"OPEN", "CLOSING"}
    /\ cl' = [cl EXCEPT ![c].rs = "CLOSED"]
    /\ upstreamClients' = upstreamClients \ {c}
    /\ wssClients' = wssClients \ {c}
    /\ UNCHANGED <<httpVars, apiVars, impl, up, nUp, polygonSocket, polygonWs, polygonConnected, timers,
                   nFrames, lastFrame, nMsgs, lastMsg, crashed>>

\* A downstream socket emits error: server.js registers no listener for it,
\* so the EventEmitter throws and the process exits.
ws_error(c) ==
    /\ ~crashed /\ impl = "server_js"
    /\ cl[c].rs = "OPEN"
    /\ cl' = [cl EXCEPT ![c].rs = "CLOSING"]
    /\ crashed' = TRUE
    /\ UNCHANGED <<httpVars, apiVars, impl, up, nUp, polygonSocket, polygonWs, polygonConnected, timers,
                   upstreamClients, wssClients, nFrames, lastFrame, nMsgs, lastMsg>>

\* ------------------------------------- src/unnamed/part_002 (shared, lazy)
\* wss.on('connection'): the library adds ws to wss.clients; the upstream
\* socket is constructed only when polygonWs is null.
P2_wss_connection(c) ==
    /\ ~crashed /\ impl = "part_002"
    /\ NextClient(c) /\ Room(1)
    /\ cl' = [cl EXCEPT ![c].rs = "OPEN"]
    /\ wssClients' = wssClients \cup {c}
    /\ IF polygonWs = 0
       THEN /\ Room(2)
            /\ nUp' = nUp + 1
            /\ up' = [up EXCEPT ![nUp + 1] = NewSocket(0)]
            /\ polygonWs' = nUp + 1
       ELSE UNCHANGED <<up, nUp, polygonWs>>
    /\ UNCHANGED <<httpVars, apiVars, impl, polygonSocket, polygonConnected, timers,
                   upstreamClients, nFrames, lastFrame, nMsgs, lastMsg, crashed>>

\* polygonWs.on('open'): polygonWs.send(auth) on whatever polygonWs names;
\* a null polygonWs raises a TypeError no one catches.
P2_polygonWs_open(s) ==
    /\ ~crashed /\ impl = "part_002"
    /\ up[s].rs = "CONNECTING"
    /\ LET up1 == [up EXCEPT ![s].rs = "OPEN"]
           t == polygonWs
       IN  IF t = 0
           THEN crashed' = TRUE /\ up' = up1
           ELSE /\ crashed' = (up1[t].rs = "CONNECTING")
                /\ up' = [up1 EXCEPT ![t] = SendOn(up1[t], RelayAuth, 0)]
    /\ UNCHANGED <<httpVars, apiVars, impl, nUp, polygonSocket, polygonWs, polygonConnected,
                   timers, cl, upstreamClients, wssClients, nFrames, lastFrame, nMsgs, lastMsg>>

\* polygonWs.on('message'): JSON.parse(data) inside try; on success
\* data.toString() goes to every OPEN member of wss.clients.
P2_polygonWs_message(s, m) ==
    /\ ~crashed /\ impl = "part_002"
    /\ up[s].rs = "OPEN"
    /\ Room(1)
    /\ nFrames' = nFrames + 1
    /\ lastFrame' = <<s, m>>
    /\ cl' = [c \in ClientIds |->
                IF JSONparses(m) /\ c \in wssClients /\ cl[c].rs = "OPEN"
                THEN [cl[c] EXCEPT !.recv = Append(@, toString(m))]
                ELSE cl[c]]
    /\ UNCHANGED <<httpVars, apiVars, impl, up, nUp, polygonSocket, polygonWs, polygonConnected,
                   timers, upstreamClients, wssClients, nMsgs, lastMsg, crashed>>

\* polygonWs.on('error'): only logs.
P2_polygonWs_error(s) ==
    /\ ~crashed /\ impl = "part_002"
    /\ up[s].rs \in {"CONNECTING", "OPEN"}
    /\ up' = [up EXCEPT ![s].rs = "CLOSING"]
    /\ UNCHANGED <<httpVars, apiVars, impl, nUp, polygonSocket, polygonWs, polygonConnected,
                   timers, cl, upstreamClients, wssClients, nFrames, lastFrame, nMsgs, lastMsg, crashed>>

\* polygonWs.on('close'): polygonWs = null, and nothing else.
P2_polygonWs_close(s) ==
    /\ ~crashed /\ impl = "part_002"
    /\ up[s].rs \in {"OPEN", "CLOSING"}
    /\ up' = [up EXCEPT ![s].rs = "CLOSED"]
    /\ polygonWs' = 0
    /\ UNCHANGED <<httpVars, apiVars, impl, nUp, polygonSocket, polygonConnected, timers, cl,
                   upstreamClients, wssClients, nFrames, lastFrame, nMsgs, lastMsg, crashed>>

\* ws.on('message'): subscribe is re-serialised and forwarded, auth is
\* replaced by the relay's own auth message, anything else is dropped.
P2_ws_message(c, m) ==
    /\ ~crashed /\ impl = "part_002"
    /\ cl[c].rs = "OPEN"
    /\ Room(1)
    /\ nMsgs' = nMsgs + 1
    /\ lastMsg' = <<c, m>>
    /\ LET open == polygonWs # 0 /\ up[polygonWs].rs = "OPEN"
       IN  up' = IF JSONparses(m) /\ m.action = "subscribe" /\ open
                 THEN [up EXCEPT ![polygonWs] = SendOn(@, JSONstringify(m), c)]
                 ELSE IF JSONparses(m) /\ m.action = "auth" /\ open
                 THEN [up EXCEPT ![polygonWs] = SendOn(@, RelayAuth, c)]
                 ELSE up
    /\ UNCHANGED <<httpVars, apiVars, impl, nUp, polygonSocket, polygonWs, polygonConnected,
                   timers, cl, upstreamClients, wssClients, nFrames, lastFrame, crashed>>

\* ws.on('close'): logs; the library removes ws from wss.clients.
P2_ws_close(c) ==
    /\ ~crashed /\ impl = "part_002"
    /\ cl[c].rs \in {"OPEN", "CLOSING"}
    /\ cl' = [cl EXCEPT ![c].rs = "CLOSED"]
    /\ wssClients' = wssClients \ {c}
    /\ UNCHANGED <<httpVars, apiVars, impl, up, nUp, polygonSocket, polygonWs, polygonConnected,
                   timers, upstreamClients, nFrames, lastFrame, nMsgs, lastMsg, crashed>>

\* ws.on('error'): only logs.
P2_ws_error(c) ==
    /\ ~crashed /\ impl = "part_002"
    /\ cl[c].rs = "OPEN"
    /\ cl' = [cl EXCEPT ![c].rs = "CLOSING"]
    /\ UNCHANGED <<httpVars, apiVars, impl, up, nUp, polygonSocket, polygonWs, polygonConnected,
                   timers, upstreamClients, wssClients, nFrames, lastFrame, nMsgs, lastMsg, crashed>>

\* ---------------------------------- src/unnamed/part_006 (one per client)
\* WebSocket.prototype.close(): a CONNECTING socket aborts its handshake (the
\* library then emits error and close), an OPEN one starts closing.
CloseSocket(s) ==
    IF s.rs = "CONNECTING" THEN [s EXCEPT !.rs = "CLOSING", !.abort = TRUE]
    ELSE IF s.rs = "OPEN" THEN [s EXCEPT !.rs = "CLOSING"]
    ELSE s

CloseClient(k) == IF k.rs = "OPEN" THEN [k EXCEPT !.rs = "CLOSING"] ELSE k

\* Faulty variant of cleanup: upstream.close() is missing.
cleanup_client_only(c, upv, clv) ==
    /\ cl' = [clv EXCEPT ![c] = CloseClient(@)]
    /\ up' = upv

\* const cleanup = () => { wsClient.close(); upstream.close(); }, applied to
\* the socket tables upv and clv the event has already updated.
cleanup(c, upv, clv) ==
    /\ cl' = [clv EXCEPT ![c] = CloseClient(@)]
    /\ up' = [upv EXCEPT ![clv[c].upstream] = CloseSocket(@)]

\* wss.on("connection"): a new upstream socket for this client.
P6_wss_connection(c) ==
    /\ ~crashed /\ impl = "part_006"
    /\ NextClient(c) /\ Room(2)
    /\ nUp' = nUp + 1
    /\ up' = [up EXCEPT ![nUp + 1] = NewSocket(c)]
    /\ cl' = [cl EXCEPT ![c].rs = "OPEN", ![c].upstream = nUp + 1]
    /\ wssClients' = wssClients \cup {c}
    /\ UNCHANGED <<httpVars, apiVars, impl, polygonSocket, polygonWs, polygonConnected, timers,
                   upstreamClients, nFrames, lastFrame, nMsgs, lastMsg, crashed>>

\* upstream.on("open"): upstream.send(auth).
P6_upstream_open(s) ==
    /\ ~crashed /\ impl = "part_006"
    /\ up[s].rs = "CONNECTING"
    /\ up' = [up EXCEPT ![s] = SendOn([@ EXCEPT !.rs = "OPEN"], RelayAuth, 0)]
    /\ UNCHANGED <<httpVars, apiVars, impl, nUp, polygonSocket, polygonWs, polygonConnected,
                   timers, cl, upstreamClients, wssClients, nFrames, lastFrame, nMsgs, lastMsg, crashed>>

\* upstream.on("message"): wsClient.send(msg.toString()) inside try.
P6_upstream_message(s, m) ==
    /\ ~crashed /\ impl = "part_006"
    /\ up[s].rs = "OPEN"
    /\ Room(1)
    /\ nFrames' = nFrames + 1
    /\ lastFrame' = <<s, m>>
    /\ LET c == up[s].owner
       IN  cl' = IF cl[c].rs = "OPEN"
                 THEN [cl EXCEPT ![c].recv = Append(@, toString(m))]
                 ELSE cl
    /\ UNCHANGED <<httpVars, apiVars, impl, up, nUp, polygonSocket, polygonWs, polygonConnected,
                   timers, upstreamClients, wssClients, nMsgs, lastMsg, crashed>>

\* wsClient.on("message"): forwarded when this client's upstream is OPEN.
P6_wsClient_message(c, m) ==
    /\ ~crashed /\ impl = "part_006"
    /\ cl[c].rs = "OPEN"
    /\ Room(1)
    /\ nMsgs' = nMsgs + 1
    /\ lastMsg' = <<c, m>>
    /\ LET s == cl[c].upstream
       IN  up' = IF up[s].rs = "OPEN"
                 THEN [up EXCEPT ![s] = SendOn(@, toString(m), c)]
                 ELSE up
    /\ UNCHANGED <<httpVars, apiVars, impl, nUp, polygonSocket, polygonWs, polygonConnected,
                   timers, cl, upstreamClients, wssClients, nFrames, lastFrame, crashed>>

\* wsClient.on("close", cleanup)
P6_wsClient_close(c) ==
    /\ ~crashed /\ impl = "part_006"
    /\ cl[c].rs \in {"OPEN", "CLOSING"}
    /\ cleanup(c, up, [cl EXCEPT ![c].rs = "CLOSED"])
    /\ wssClients' = wssClients \ {c}
    /\ UNCHANGED <<httpVars, apiVars, impl, nUp, polygonSocket, polygonWs, polygonConnected,
                   timers, upstreamClients, nFrames, lastFrame, nMsgs, lastMsg, crashed>>

\* wsClient.on("error", cleanup)
P6_wsClient_error(c) ==
    /\ ~crashed /\ impl = "part_006"
    /\ cl[c].rs = "OPEN"
    /\ cleanup(c, up, [cl EXCEPT ![c].rs = "CLOSING"])
    /\ UNCHANGED <<httpVars, apiVars, impl, nUp, polygonSocket, polygonWs, polygonConnected,
                   timers, upstreamClients, wssClients, nFrames, lastFrame, nMsgs, lastMsg, crashed>>

\* upstream.on("close", cleanup)
P6_upstream_close(s) ==
    /\ ~crashed /\ impl = "part_006"
    /\ up[s].rs \in {"OPEN", "CLOSING"} /\ ~up[s].abort
    /\ cleanup(up[s].owner, [up EXCEPT ![s].rs = "CLOSED"], cl)
    /\ UNCHANGED <<httpVars, apiVars, impl, nUp, polygonSocket, polygonWs, polygonConnected,
                   timers, upstreamClients, wssClients, nFrames, lastFrame, nMsgs, lastMsg, crashed>>

\* upstream.on("error", cleanup): a transport error, or the error the
\* library emits for a handshake that close() aborted.
P6_upstream_error(s) ==
    /\ ~crashed /\ impl = "part_006"
    /\ \/ up[s].rs \in {"CONNECTING", "OPEN"}
       \/ up[s].rs = "CLOSING" /\ up[s].abort
    /\ cleanup(up[s].owner, [up EXCEPT ![s].rs = "CLOSING", ![s].abort = FALSE], cl)
    /\ UNCHANGED <<httpVars, apiVars, impl, nUp, polygonSocket, polygonWs, polygonConnected,
                   timers, upstreamClients, wssClients, nFrames, lastFrame, nMsgs, lastMsg, crashed>>

\* ------------------------------ src/unnamed/part_006, src/server.js (caches)
\* The capacities the process is configured with (FUND_CACHE_MAX and
\* NEWS_CACHE_MAX of the environment), and the length of a run.
FUND_CACHE_MAX == 2
NEWS_CACHE_MAX == 2
MaxCacheOps == 4

CacheKeys == {"k1", "k2", "k3"}
CacheVals == {"v1", "v2"}
Ttls == {0, 1}

Null == "null"
NoLookup == [op |-> "", key |-> "", hit |-> FALSE, expires |-> 0, val |-> Null, at |-> 0]

\* Map.prototype.has, get, set and delete; Map.prototype.set leaves an
\* existing key at its place in the iteration order.
Map_has(map, key) == \E j \in 1..Len(map) : map[j].key = key
Map_get(map, key) == map[CHOOSE j \in 1..Len(map) : map[j].key = key]
Map_set(map, e) ==
    IF Map_has(map, e.key)
    THEN [j \in 1..Len(map) |-> IF map[j].key = e.key THEN e ELSE map[j]]
    ELSE Append(map, e)
Map_delete(map, key) == SelectSeq(map, LAMBDA e : e.key # key)

\* function cacheGet of a Map of [key, val, exp] entries: the Map afterwards
\* and the value returned.
Get(map, key) ==
    IF ~Map_has(map, key) THEN [map |-> map, val |-> Null]
    ELSE LET hit == Map_get(map, key)
         IN  IF hit.exp < clock THEN [map |-> Map_delete(map, key), val |-> Null]
             ELSE [map |-> map, val |-> hit.val]

\* What a lookup saw and gave.
Lookup(op, map, key, expires, val) ==
    [op |-> op, key |-> key, hit |-> Map_has(map, key),
     expires |-> IF Map_has(map, key) THEN expires ELSE 0, val |-> val, at |-> clock]

\* for (const [k, v] of map.entries()) if (v.exp < minExp) { minExp = v.exp;
\* minKey = k; }: the position of the first entry whose exp none undercuts.
minKey(map) ==
    CHOOSE j \in 1..Len(map) :
        /\ \A k \in 1..Len(map) : map[j].exp <= map[k].exp
        /\ \A k \in 1..(j - 1) : map[k].exp > map[j].exp

\* Faulty variant of Set: the entry inserted first is evicted.
Set_evicts_oldest(map, max, key, val, ttl) ==
    LET room == IF Len(map) >= max /\ ~Map_has(map, key) /\ map # <<>>
                THEN Tail(map)
                ELSE map
    IN  Map_set(room, [key |-> key, val |-> val, exp |-> clock + ttl])

\* Faulty variant of Set: eviction starts when the Map is above its capacity.
Set_evicts_late(map, max, key, val, ttl) ==
    LET room == IF Len(map) > max /\ ~Map_has(map, key) /\ map # <<>>
                THEN Map_delete(map, map[minKey(map)].key)
                ELSE map
    IN  Map_set(room, [key |-> key, val |-> val, exp |-> clock + ttl])

\* Faulty variant of Set: the comparison of the scan is reversed, the entry
\* of largest exp is evicted.
Set_evicts_largest(map, max, key, val, ttl) ==
    LET last == CHOOSE j \in 1..Len(map) : \A k \in 1..Len(map) : map[k].exp <= map[j].exp
        room == IF Len(map) >= max /\ ~Map_has(map, key) /\ map # <<>>
                THEN Map_delete(map, map[last].key)
                ELSE map
    IN  Map_set(room, [key |-> key, val |-> val, exp |-> clock + ttl])

\* function cacheSet of a Map with capacity max: the Map afterwards.
Set(map, max, key, val, ttl) ==
    LET room == IF Len(map) >= max /\ ~Map_has(map, key) /\ map # <<>>
                THEN Map_delete(map, map[minKey(map)].key)
                ELSE map
    IN  Map_set(room, [key |-> key, val |-> val, exp |-> clock + ttl])

\* One more step of a run that has not reached its length.
CacheOp == nCacheOps < MaxCacheOps /\ nCacheOps' = nCacheOps + 1

\* What a store did: minKey is the key deleted to make room, Null if none,
\* and minExp the exp of its entry.
NoStore == [op |-> "", key |-> "", minKey |-> Null, minExp |-> 0]
Store(op, map, max, key) ==
    IF Len(map) >= max /\ ~Map_has(map, key) /\ map # <<>>
    THEN [op |-> op, key |-> key, minKey |-> map[minKey(map)].key,
          minExp |-> map[minKey(map)].exp]
    ELSE [op |-> op, key |-> key, minKey |-> Null, minExp |-> 0]

\* A tick of the clock passes.
Elapse ==
    /\ CacheOp
    /\ clock' = clock + 1
    /\ UNCHANGED <<beyondCaches, FUND_CACHE, NEWS_CACHE, cache, got, put>>

\* part_006 cacheGet(key)
cacheGet(key) ==
    /\ impl = "part_006" /\ CacheOp
    /\ FUND_CACHE' = Get(FUND_CACHE, key).map
    /\ got' = Lookup("cacheGet", FUND_CACHE, key, Map_get(FUND_CACHE, key).exp,
                     Get(FUND_CACHE, key).val)
    /\ UNCHANGED <<beyondCaches, clock, NEWS_CACHE, cache, put>>

\* part_006 cacheSet(key, val, ttl)
cacheSet(key, val, ttl) ==
    /\ impl = "part_006" /\ CacheOp
    /\ FUND_CACHE' = Set(FUND_CACHE, FUND_CACHE_MAX, key, val, ttl)
    /\ put' = Store("cacheSet", FUND_CACHE, FUND_CACHE_MAX, key)
    /\ UNCHANGED <<beyondCaches, clock, NEWS_CACHE, cache, got>>

\* part_006 newsCacheGet(key)
newsCacheGet(key) ==
    /\ impl = "part_006" /\ CacheOp
    /\ NEWS_CACHE' = Get(NEWS_CACHE, key).map
    /\ got' = Lookup("newsCacheGet", NEWS_CACHE, key, Map_get(NEWS_CACHE, key).exp,
                     Get(NEWS_CACHE, key).val)
    /\ UNCHANGED <<beyondCaches, clock, FUND_CACHE, cache, put>>

\* part_006 newsCacheSet(key, val, ttl)
newsCacheSet(key, val, ttl) ==
    /\ impl = "part_006" /\ CacheOp
    /\ NEWS_CACHE' = Set(NEWS_CACHE, NEWS_CACHE_MAX, key, val, ttl)
    /\ put' = Store("newsCacheSet", NEWS_CACHE, NEWS_CACHE_MAX, key)
    /\ UNCHANGED <<beyondCaches, clock, FUND_CACHE, cache, got>>

\* server.js getCache(key)
getCache(key) ==
    /\ impl = "server_js" /\ CacheOp
    /\ LET hit == Map_get(cache, key)
           stale == Map_has(cache, key) /\ clock - hit.ts > hit.ttlMs
       IN  /\ cache' = IF stale THEN Map_delete(cache, key) ELSE cache
           /\ got' = Lookup("getCache", cache, key, hit.ts + hit.ttlMs,
                            IF ~Map_has(cache, key) \/ stale THEN Null ELSE hit.data)
    /\ UNCHANGED <<beyondCaches, clock, FUND_CACHE, NEWS_CACHE, put>>

\* server.js setCache(key, data, ttlMs)
setCache(key, data, ttlMs) ==
    /\ impl = "server_js" /\ CacheOp
    /\ cache' = Map_set(cache, [key |-> key, ts |-> clock, ttlMs |-> ttlMs, data |-> data])
    /\ put' = [op |-> "setCache", key |-> key, minKey |-> Null, minExp |-> 0]
    /\ UNCHANGED <<beyondCaches, clock, FUND_CACHE, NEWS_CACHE, got>>

\* The caches as the modules create them.
CachesEmpty ==
    /\ clock = 0
    /\ FUND_CACHE = <<>> /\ NEWS_CACHE = <<>> /\ cache = <<>>
    /\ got = NoLookup /\ put = NoStore
    /\ nCacheOps = 0

\* ------------------------------------------- src/unnamed/part_006 (gainers)
\* The gainers routes of the HTTP API: GET /gainers, its alias
\* GET /market/top-gainers, and GET /api/gainers (requests without
\* include=fund).

\* ---- the clock and the New York calendar
\* Instants are hours counted from 00:00 New York standard time of day 0;
\* addDays moves by 86400000 ms, that is by HoursPerDay hours.
HoursPerDay == 24

\* findLastTradingDayNY(5), the only call computeGainers makes.
MaxBack == 5

\* How many hours the clock may advance while one request is in flight.
MaxTicks == 2

\* The Sunday on which daylight saving time starts or ends, when it does.
TransitionDay == MaxBack + 2

DstCases == {"none", "starts", "ends"}

\* The hours a request may arrive at: the last two hours of TransitionDay,
\* by standard time.
LastHour == HoursPerDay * TransitionDay + HoursPerDay - 1
StartHours == {LastHour - 1, LastHour}

\* New York's clock minus standard time at instant t. Daylight saving time
\* starts at 02:00 standard time and ends at 02:00 daylight time (01:00
\* standard time) of TransitionDay.
NYOffset(t) ==
    CASE dst = "none"   -> 0
      [] dst = "starts" -> IF t >= HoursPerDay * TransitionDay + 2 THEN 1 ELSE 0
      [] dst = "ends"   -> IF t < HoursPerDay * TransitionDay + 1 THEN 1 ELSE 0

\* ymdNY(d): the New York calendar date of instant t. The string YYYY-MM-DD
\* names a day; the model keeps the day's number v.
ymdNY(t) == [fmt |-> "YYYY-MM-DD", v |-> (t + NYOffset(t)) \div HoursPerDay]

\* Date.prototype.toISOString(): the instant itself, as a string.
toISOString(t) == [fmt |-> "ISO", v |-> t]

\* addDays(d, days)
addDays(t, days) == t + days * HoursPerDay

\* ---- JavaScript values
\* A value is a number n, NaN, a string (its text is not kept), or
\* undefined (null and a missing field are not told apart from it).
Number(n) == [type |-> "number", n |-> n]
NaN == [type |-> "NaN", n |-> 0]
String == [type |-> "string", n |-> 0]
Undefined == [type |-> "undefined", n |-> 0]

\* The decimal strings the model reads, with their values.
Numerals ==
    ("50" :> 50) @@ ("10000" :> 10000) @@ ("2" :> 2) @@ ("1" :> 1) @@ ("0" :> 0) @@ ("-1" :> -1) @@ ("-2" :> -2)

\* What req.query.limit may be; "" stands for an absent parameter.
QueryLimits == {"", "10000", "2", "1", "0", "-1", "abc"}

\* parseInt(s, 10)
parseInt(s) == IF s \in DOMAIN Numerals THEN Number(Numerals[s]) ELSE NaN

\* Math.min(x, n): NaN if x is NaN.
MathMin(x, n) == IF x = NaN THEN NaN ELSE Number(IF x.n < n THEN x.n ELSE n)

\* x + n: NaN if x is NaN.
Plus(x, n) == IF x = NaN THEN NaN ELSE Number(x.n + n)

\* n < x: false if x is NaN.
LessThan(n, x) == x # NaN /\ n < x.n

\* x || n for a number x: n when x is 0 or NaN.
OrElse(x, n) == IF x = NaN \/ x.n = 0 THEN Number(n) ELSE x

\* Array.prototype.slice(0, end): NaN counts as 0, a negative end counts
\* from the end of the array.
slice(s, end) ==
    LET len == Len(s)
        k == IF end = NaN THEN 0
             ELSE IF end.n < 0 THEN (IF len + end.n > 0 THEN len + end.n ELSE 0)
             ELSE IF end.n < len THEN end.n ELSE len
    IN  SubSeq(s, 1, k)

\* Faulty variant of sort: an element goes before the elements the
\* comparator calls equal to it, so equal rows end up in reverse order.
RECURSIVE sort_unstable(_)
sort_unstable(ps) ==
    IF ps = <<>> THEN <<>>
    ELSE LET n == Len(ps)
             e == ps[n]
             sorted == sort_unstable(SubSeq(ps, 1, n - 1))
             m == Cardinality({j \in 1..Len(sorted) : e[1] - sorted[j][1] < 0})
         IN  SubSeq(sorted, 1, m) \o <<e>> \o SubSeq(sorted, m + 1, Len(sorted))

\* Array.prototype.sort((a, b) => key(b) - key(a)) on a sequence of
\* <<key, row>> pairs. The sort is stable (ECMAScript 2019): an element goes
\* behind every element the comparator does not put after it.
RECURSIVE sort(_)
sort(ps) ==
    IF ps = <<>> THEN <<>>
    ELSE LET n == Len(ps)
             e == ps[n]
             sorted == sort(SubSeq(ps, 1, n - 1))
             m == Cardinality({j \in 1..Len(sorted) : e[1] - sorted[j][1] <= 0})
         IN  SubSeq(sorted, 1, m) \o <<e>> \o SubSeq(sorted, m + 1, Len(sorted))

\* The rows of a sorted sequence of <<key, row>> pairs.
Rows(ps) == [p \in 1..Len(ps) |-> ps[p][2]]

\* ---- upstream data
\* Prices are counted in units of 0.00001 dollar, so that toFixed(4) has
\* something to round; a pctChange is counted in hundredths of a percent.

\* Math.min(limit, 500) in computeGainers and computeSnapshotGainers.
SliceCap == 500

\* One element of grouped.results, or null.
GroupedRow(T, o, c, v) == [null |-> FALSE, T |-> T, o |-> o, c |-> c, v |-> v]
NullRow == [null |-> TRUE, T |-> "", o |-> Undefined, c |-> Undefined, v |-> 0]

\* [{T:"AAA",o:10,c:12,v:100},{T:"BBB",o:10,c:9,v:50}]
GroupedExample ==
    << GroupedRow("AAA", Number(1000000), Number(1200000), 100),
       GroupedRow("BBB", Number(1000000), Number(900000), 50) >>

\* Rows the filter must drop, two rows with the same pctChange, and a row
\* whose change and pctChange need rounding (o = 1, c = 1.00007).
GroupedMixed ==
    << NullRow,
       GroupedRow("STR", String, Number(1200000), 1),
       GroupedRow("ZERO", Number(0), Number(500000), 2),
       GroupedRow("NEG", Number(-100000), Number(500000), 3),
       GroupedRow("NOC", Number(100000), Undefined, 4),
       GroupedRow("TIE1", Number(100000), Number(110000), 5),
       GroupedRow("LOW", Number(100000), Number(100007), 6),
       GroupedRow("TIE2", Number(200000), Number(220000), 7),
       GroupedRow("TOP", Number(100000), Number(150000), 8) >>

\* What a call of makePolygonRequest may come to: it throws (the response
\* is not ok, or fetch fails), or it returns the rows of the body (none when
\* the body has no results).
Throws == [out |-> "throws", rows |-> <<>>, at |-> 0]
Returns(rows) == [out |-> "returns", rows |-> rows, at |-> 0]

\* No answer yet.
Pending == [out |-> "pending", rows |-> <<>>, at |-> 0]

GroupedAnswers == {Throws, Returns(<<>>), Returns(GroupedExample), Returns(GroupedMixed)}

\* One element of the snapshot's tickers: last, prev and vol are what the
\* ?? chains of computeSnapshotGainers find (lastTrade.p, prevDay.c, day.v).
SnapshotRow(ticker, last, prev, todaysChange, todaysChangePerc, vol) ==
    [ticker |-> ticker, last |-> last, prev |-> prev, todaysChange |-> todaysChange,
     todaysChangePerc |-> todaysChangePerc, vol |-> vol]

\* A row that carries todaysChangePerc and no prices, a row whose change is
\* computed from last and prev, a row with no ticker, a row with prev = 0,
\* and a row that ties with the computed one.
SnapshotMixed ==
    << SnapshotRow("CALC", Number(110000), Number(100000), Undefined, Undefined, Number(10)),
       SnapshotRow("", Number(110000), Number(100000), Number(10000), Number(9900), Number(20)),
       SnapshotRow("NOPREV", Number(110000), Number(0), Undefined, Undefined, Number(30)),
       SnapshotRow("GAIN", Undefined, Undefined, Number(25000), Number(2500), Undefined),
       SnapshotRow("TIE", Number(220000), Number(200000), Number(20000), Number(1000), Number(40)),
       SnapshotRow("AAA", Number(1210000), Number(1200000), Number(10000), Number(83), Number(50)) >>

\* Rows of which none is admitted.
SnapshotDropped ==
    << SnapshotRow("", Number(110000), Number(100000), Number(10000), Number(1000), Number(20)),
       SnapshotRow("NOPREV", Number(110000), Number(0), Undefined, Undefined, Number(30)) >>

SnapshotAnswers == {Throws, Returns(<<>>), Returns(SnapshotDropped), Returns(SnapshotMixed)}

\* ---- the two strategies
\* computeGainers: the filter.
admitted(r) == ~r.null /\ r.o.type = "number" /\ r.o.n > 0 /\ r.c.type = "number"

\* Faulty variant of toFixed: the digits beyond the last one kept are cut
\* off instead of rounded.
toFixed_truncates(n, q) ==
    LET a == IF n < 0 THEN -n ELSE n
    IN  IF n < 0 THEN -(a \div q) ELSE a \div q

\* +(x).toFixed(digits) for x = n / q (q > 0), in units of the last digit
\* kept: the nearest integer, a tie going away from zero.
toFixed(n, q) ==
    LET a == IF n < 0 THEN -n ELSE n
        r == (a \div q) + (IF 2 * (a % q) >= q THEN 1 ELSE 0)
    IN  IF n < 0 THEN -r ELSE r

\* computeGainers: the row made of an admitted element.
gainerRow(r, date) ==
    [ticker |-> r.T, open |-> r.o, close |-> r.c,
     change |-> Number(toFixed(r.c.n - r.o.n, 10) * 10),
     pctChange |-> Number(toFixed((r.c.n - r.o.n) * 10000, r.o.n)),
     volume |-> r.v, date |-> date]

\* Each row with the number the comparator subtracts, its pctChange.
Keyed(rows) == [k \in 1..Len(rows) |-> <<rows[k].pctChange.n, rows[k]>>]

\* computeGainers, from the result of findLastTradingDayNY on.
computeGainers(date, results, limit) ==
    LET filtered == SelectSeq(results, admitted)
        rows == [k \in 1..Len(filtered) |-> gainerRow(filtered[k], date)]
    IN  [date |-> date,
         results |-> slice(Rows(sort(Keyed(rows))), MathMin(limit, SliceCap)),
         source |-> "grouped"]

\* computeSnapshotGainers: the row made of an element.
snapshotRow(r) ==
    LET last == r.last
        prev == r.prev
        todaysChange ==
            IF r.todaysChange # Undefined THEN r.todaysChange
            ELSE IF last # Undefined /\ prev # Undefined
                 THEN Number(toFixed(last.n - prev.n, 10) * 10)
                 ELSE Undefined
        todaysChangePerc ==
            IF r.todaysChangePerc # Undefined THEN r.todaysChangePerc
            ELSE IF last # Undefined /\ prev # Undefined /\ prev.n # 0
                 THEN Number(toFixed((last.n - prev.n) * 10000, prev.n))
                 ELSE Undefined
    IN  [ticker |-> r.ticker, last |-> last, previousClose |-> prev,
         change |-> todaysChange, pctChange |-> todaysChangePerc,
         volume |-> r.vol, raw |-> r]

\* computeSnapshotGainers: the filter.
kept(x) == x.ticker # "" /\ x.pctChange # Undefined

\* computeSnapshotGainers, from the answer of the snapshot source on.
computeSnapshotGainers(data, limit, t) ==
    LET rows == SelectSeq([k \in 1..Len(data) |-> snapshotRow(data[k])], kept)
    IN  [date |-> toISOString(t),
         results |-> slice(Rows(sort(Keyed(rows))), MathMin(limit, SliceCap)),
         source |-> "snapshot"]

\* ---- the handlers
\* parseInt(req.query.limit || "50", 10)
DefaultLimit == 50

GainersRoutes == {"/gainers", "/market/top-gainers"}
Routes == GainersRoutes \cup {"/api/gainers"}

NoRequest == [route |-> "", limit |-> "", days_back |-> "", include |-> ""]
NoDate == [fmt |-> "", v |-> 0]
NoResponse == [status |-> 0, body |-> [error |-> FALSE]]

\* res.status(500).json({ error: ... })
Error500 == [status |-> 500, body |-> [error |-> TRUE]]

\* res.json(body)
Json(body) == [status |-> 200, body |-> body]

\* const limit = ... of the handler that serves req.
limit ==
    LET n == parseInt(IF req.limit = "" THEN "50" ELSE req.limit)
    IN  IF req.route = "/api/gainers" THEN MathMin(OrElse(n, DefaultLimit), SliceCap) ELSE n

\* The maxBack that the handler serving req passes to findLastTradingDayNY:
\* computeGainers passes 5, GET /historical/:symbol passes
\* parseInt(days_back, 10) + 1, where days_back = 1 if the query has none.
maxBack ==
    IF req.route = "/historical/:symbol"
    THEN Plus(parseInt(IF req.days_back = "" THEN "1" ELSE req.days_back), 1)
    ELSE Number(MaxBack)

\* No request on the HTTP side.
HttpIdle ==
    /\ now = LastHour /\ dst = "none"
    /\ req = NoRequest /\ pc = "idle"
    /\ loop_i = 0 /\ loop_d = 0 /\ probes = <<>>
    /\ snapshot = Pending /\ dateStr = NoDate /\ grouped = <<>>
    /\ tickers = <<>> /\ res = NoResponse

\* Time passes while the handler is suspended at an await.
Tick ==
    /\ pc \in {"snapshot", "fetchGrouped"}
    /\ now < LastHour + MaxTicks
    /\ now' = now + 1
    /\ UNCHANGED <<relayVars, apiVars, dst, req, pc, loop_i, loop_d, probes, snapshot, dateStr, grouped, tickers, res>>

\* A request arrives: the handler runs up to await computeSnapshotGainers,
\* which is suspended at its makePolygonRequest.
app_get(route, q, include) ==
    /\ pc = "idle"
    /\ req' = [route |-> route, limit |-> q, days_back |-> "", include |-> include]
    /\ pc' = "snapshot"
    /\ UNCHANGED <<relayVars, apiVars, now, dst, loop_i, loop_d, probes, snapshot, dateStr, grouped, tickers, res>>

\* computeGainers is called: findLastTradingDayNY(5) runs up to its first
\* await fetchGrouped(dateStr).
findLastTradingDayNY_called ==
    /\ loop_d' = now /\ loop_i' = 0
    /\ pc' = "fetchGrouped"

\* Faulty variant of findLastTradingDayNY: the date returned with the data is
\* today's, whichever date the data was fetched for.
findLastTradingDayNY_returns_today(a) ==
    /\ probes' = Append(probes, [dateStr |-> ymdNY(loop_d), answer |-> a])
    /\ IF a.out = "throws" THEN UNCHANGED <<loop_i, loop_d, dateStr, grouped>>
       ELSE IF a.rows # <<>>
            THEN dateStr' = ymdNY(now) /\ grouped' = a.rows /\ UNCHANGED <<loop_i, loop_d>>
            ELSE /\ loop_i' = loop_i + 1 /\ loop_d' = addDays(loop_d, -1)
                 /\ IF LessThan(loop_i + 1, maxBack) THEN UNCHANGED <<dateStr, grouped>>
                    ELSE dateStr' = ymdNY(addDays(now, -1)) /\ grouped' = <<>>

\* Faulty variant of findLastTradingDayNY: a fetchGrouped call that throws
\* counts as a day with no rows, and the walk goes on.
findLastTradingDayNY_skips_failures(a) ==
    /\ probes' = Append(probes, [dateStr |-> ymdNY(loop_d), answer |-> a])
    /\ IF a.rows # <<>>
       THEN dateStr' = ymdNY(loop_d) /\ grouped' = a.rows /\ UNCHANGED <<loop_i, loop_d>>
       ELSE /\ loop_i' = loop_i + 1 /\ loop_d' = addDays(loop_d, -1)
            /\ IF LessThan(loop_i + 1, maxBack) THEN UNCHANGED <<dateStr, grouped>>
               ELSE dateStr' = ymdNY(addDays(now, -1)) /\ grouped' = <<>>

\* findLastTradingDayNY resumed by the answer a of fetchGrouped(ymdNY(loop_d)):
\* the exception propagates, or the loop returns the date with its data, or
\* it steps back one day, or it falls off its end and returns "yesterday".
findLastTradingDayNY(a) ==
    /\ probes' = Append(probes, [dateStr |-> ymdNY(loop_d), answer |-> a])
    /\ IF a.out = "throws" THEN UNCHANGED <<loop_i, loop_d, dateStr, grouped>>
       ELSE IF a.rows # <<>>
            THEN dateStr' = ymdNY(loop_d) /\ grouped' = a.rows /\ UNCHANGED <<loop_i, loop_d>>
            ELSE /\ loop_i' = loop_i + 1 /\ loop_d' = addDays(loop_d, -1)
                 /\ IF LessThan(loop_i + 1, maxBack) THEN UNCHANGED <<dateStr, grouped>>
                    ELSE dateStr' = ymdNY(addDays(now, -1)) /\ grouped' = <<>>

\* findLastTradingDayNY has returned in this step.
Returned(a) == a.out = "returns" /\ (a.rows # <<>> \/ ~LessThan(loop_i + 1, maxBack))

\* ---- the enrichment of GET /gainers and GET /market/top-gainers
\* limitedMap(rows, 6, ...), and the default ttl of cacheSet in milliseconds.
EnrichLimit == 6
TTL_MS == 86400000

\* /fund|all/i.test(String(req.query.include || "")), for the values of the
\* model.
QueryIncludes == {"none", "Fund"}
includeFund == req.include \in {"fund", "Fund", "ALL"}

JsNull == [type |-> "null", n |-> 0]

\* x || null and x ?? y
OrNull(x) ==
    IF x.type \in {"undefined", "null", "NaN"} \/ (x.type = "number" /\ x.n = 0)
    THEN JsNull
    ELSE x
Coalesce(x, y) == IF x.type \in {"undefined", "null"} THEN y ELSE x

\* What /v3/reference/tickers/:ticker may come to: an exception, or results
\* with share_class_shares_outstanding alone.
Overview(description, code, cap, weighted, shareClass) ==
    [out |-> "returns",
     results |-> [sic_description |-> description, sic_code |-> code, market_cap |-> cap,
                  weighted_shares_outstanding |-> weighted,
                  share_class_shares_outstanding |-> shareClass]]
OverviewThrows == [out |-> "throws", results |-> <<>>]
OverviewAnswers ==
    {OverviewThrows, Overview(Undefined, Undefined, Undefined, Undefined, Number(9))}

\* getTickerOverview: const out, made of data.results.
overview(r) ==
    [sector |-> OrNull(r.sic_description), sicCode |-> OrNull(r.sic_code),
     marketCap |-> Coalesce(r.market_cap, JsNull),
     weightedSharesOut |-> Coalesce(r.weighted_shares_outstanding, JsNull),
     shareClassSharesOut |-> Coalesce(r.share_class_shares_outstanding, JsNull)]

\* Object.assign(row, { sector: f.sector, ... })
Object_assign(row, f) ==
    [sector |-> f.sector, sicCode |-> f.sicCode, marketCap |-> f.marketCap,
     sharesOutstanding |-> Coalesce(f.weightedSharesOut, f.shareClassSharesOut)] @@ row

\* The runners of limitedMap that are not suspended go on: st.free of them
\* take the next index each, a runner whose ticker is in the cache assigns
\* the row and takes another, a runner whose ticker is not calls
\* makePolygonRequest and is suspended, until none is free or i has reached
\* items.length.
RECURSIVE runners(_)
runners(st) ==
    IF st.free = 0 \/ st.i >= Len(st.rows) THEN st
    ELSE LET idx == st.i + 1
             key == st.rows[idx].ticker
             cached == Get(st.cache, key)
             hit == Map_has(st.cache, key) /\ ~(Map_get(st.cache, key).exp < clock)
             seen == Lookup("cacheGet", st.cache, key, Map_get(st.cache, key).exp, cached.val)
         IN  IF hit
             THEN runners([st EXCEPT !.i = @ + 1, !.got = seen,
                                     !.rows[idx] = Object_assign(@, cached.val),
                                     !.out[idx] = "undefined"])
             ELSE runners([st EXCEPT !.i = @ + 1, !.got = seen, !.cache = cached.map,
                                     !.free = @ - 1, !.inflight = @ \cup {idx}])

\* limitedMap and the handler once the runners have gone on to st: the
\* handler stays suspended at await Promise.all(runners) while a call is
\* outstanding, and sends the rows once none is.
limitedMap(payload, st) ==
    /\ gainers_data' = [payload EXCEPT !.results = st.rows]
    /\ enrich_i' = st.i /\ inflight' = st.inflight /\ enrich_out' = st.out
    /\ FUND_CACHE' = st.cache /\ got' = st.got
    /\ IF st.inflight = {}
       THEN res' = Json([payload EXCEPT !.results = st.rows]) /\ pc' = "done"
       ELSE pc' = "enrich" /\ UNCHANGED res

\* Faulty variant of respond: limitedMap starts a runner for every row.
respond_unlimited(payload) ==
    IF includeFund /\ payload.results # <<>>
    THEN LET n == Len(payload.results)
         IN  limitedMap(payload,
                 runners([i |-> 0, free |-> n,
                          inflight |-> {}, rows |-> payload.results,
                          out |-> [k \in 1..n |-> "empty"],
                          cache |-> FUND_CACHE, got |-> got]))
    ELSE res' = Json(payload) /\ pc' = "done" /\ UNCHANGED <<FUND_CACHE, got, enrichVars>>

\* GET /gainers from const rows = data.results on: the rows are enriched if
\* the request asks for it and there are rows, and sent.
respond(payload) ==
    IF includeFund /\ payload.results # <<>>
    THEN LET n == Len(payload.results)
         IN  limitedMap(payload,
                 runners([i |-> 0, free |-> IF EnrichLimit < n THEN EnrichLimit ELSE n,
                          inflight |-> {}, rows |-> payload.results,
                          out |-> [k \in 1..n |-> "empty"],
                          cache |-> FUND_CACHE, got |-> got]))
    ELSE res' = Json(payload) /\ pc' = "done" /\ UNCHANGED <<FUND_CACHE, got, enrichVars>>

\* Faulty variant of overview_answered: an exception of a lookup rejects
\* limitedMap, and the handler answers with the error payload.
overview_answered_rejects(idx, a) ==
    /\ pc = "enrich" /\ idx \in inflight
    /\ IF a.out = "throws"
       THEN /\ res' = Error500 /\ pc' = "done"
            /\ inflight' = inflight \ {idx}
            /\ UNCHANGED <<FUND_CACHE, got, put, gainers_data, enrich_i, enrich_out>>
       ELSE LET key == gainers_data.results[idx].ticker
                f == overview(a.results)
            IN  /\ put' = Store("cacheSet", FUND_CACHE, FUND_CACHE_MAX, key)
                /\ limitedMap(gainers_data,
                       runners([i |-> enrich_i, free |-> 1, inflight |-> inflight \ {idx},
                                rows |-> [gainers_data.results EXCEPT
                                             ![idx] = Object_assign(@, f)],
                                out |-> [enrich_out EXCEPT ![idx] = "undefined"],
                                cache |-> Set(FUND_CACHE, FUND_CACHE_MAX, key, f, TTL_MS),
                                got |-> got]))
    /\ UNCHANGED <<relayVars, clock, NEWS_CACHE, cache, nCacheOps, rateVars, sharedVars,
                   now, dst, req, loop_i, loop_d, probes, snapshot, dateStr, grouped, tickers>>

\* Faulty variant of overview_answered: a runner handles one item and ends
\* (if where the code has while), so the items beyond the first runners' are
\* never taken.
overview_answered_runs_once(idx, a) ==
    /\ pc = "enrich" /\ idx \in inflight
    /\ LET key == gainers_data.results[idx].ticker
           f == overview(a.results)
           failed == a.out = "throws"
       IN  /\ put' = IF failed THEN put ELSE Store("cacheSet", FUND_CACHE, FUND_CACHE_MAX, key)
           /\ limitedMap(gainers_data,
                  runners([i |-> enrich_i, free |-> 0, inflight |-> inflight \ {idx},
                           rows |-> IF failed THEN gainers_data.results
                                    ELSE [gainers_data.results EXCEPT
                                             ![idx] = Object_assign(@, f)],
                           out |-> [enrich_out EXCEPT
                                       ![idx] = IF failed THEN "null" ELSE "undefined"],
                           cache |-> IF failed THEN FUND_CACHE
                                     ELSE Set(FUND_CACHE, FUND_CACHE_MAX, key, f, TTL_MS),
                           got |-> got]))
    /\ UNCHANGED <<relayVars, clock, NEWS_CACHE, cache, nCacheOps, rateVars, sharedVars,
                   now, dst, req, loop_i, loop_d, probes, snapshot, dateStr, grouped, tickers>>

\* GET /gainers, resumed by the answer a of the reference-data call for row
\* idx: an exception is caught and null stored in out; otherwise the
\* overview is cached and assigned to the row. The runner then goes on.
overview_answered(idx, a) ==
    /\ pc = "enrich" /\ idx \in inflight
    /\ LET key == gainers_data.results[idx].ticker
           f == overview(a.results)
           failed == a.out = "throws"
       IN  /\ put' = IF failed THEN put ELSE Store("cacheSet", FUND_CACHE, FUND_CACHE_MAX, key)
           /\ limitedMap(gainers_data,
                  runners([i |-> enrich_i, free |-> 1, inflight |-> inflight \ {idx},
                           rows |-> IF failed THEN gainers_data.results
                                    ELSE [gainers_data.results EXCEPT
                                             ![idx] = Object_assign(@, f)],
                           out |-> [enrich_out EXCEPT
                                       ![idx] = IF failed THEN "null" ELSE "undefined"],
                           cache |-> IF failed THEN FUND_CACHE
                                     ELSE Set(FUND_CACHE, FUND_CACHE_MAX, key, f, TTL_MS),
                           got |-> got]))
    /\ UNCHANGED <<relayVars, clock, NEWS_CACHE, cache, nCacheOps, rateVars, sharedVars,
                   now, dst, req, loop_i, loop_d, probes, snapshot, dateStr, grouped, tickers>>

\* No request is being enriched.
NoEnrichment ==
    /\ gainers_data = [date |-> NoDate, results |-> <<>>, source |-> ""]
    /\ enrich_i = 0 /\ inflight = {} /\ enrich_out = <<>>

\* Faulty variant of gainers_snapshot: a snapshot failure is answered with
\* the error payload at once, the grouped strategy is not tried.
gainers_snapshot_no_fallback(a) ==
    /\ pc = "snapshot" /\ req.route \in GainersRoutes
    /\ snapshot' = [a EXCEPT !.at = now]
    /\ IF a.out = "throws"
       THEN res' = Error500 /\ pc' = "done" /\ UNCHANGED <<FUND_CACHE, got, enrichVars>>
       ELSE respond(computeSnapshotGainers(a.rows, limit, now))
    /\ UNCHANGED <<beyondGainers, now, dst, req, loop_i, loop_d, probes, dateStr, grouped, tickers>>

\* Faulty variant of gainers_snapshot: computeGainers is called whether or
\* not the snapshot call threw.
gainers_snapshot_then_grouped(a) ==
    /\ pc = "snapshot" /\ req.route \in GainersRoutes
    /\ snapshot' = [a EXCEPT !.at = now]
    /\ findLastTradingDayNY_called
    /\ UNCHANGED <<res, FUND_CACHE, got, enrichVars>>
    /\ UNCHANGED <<beyondGainers, now, dst, req, probes, dateStr, grouped, tickers>>

\* GET /gainers and GET /market/top-gainers, resumed by the answer a of the
\* snapshot source: the snapshot rows are the response, or, if the call
\* threw, computeGainers is called.
gainers_snapshot(a) ==
    /\ pc = "snapshot" /\ req.route \in GainersRoutes
    /\ snapshot' = [a EXCEPT !.at = now]
    /\ IF a.out = "throws"
       THEN findLastTradingDayNY_called /\ UNCHANGED <<res, FUND_CACHE, got, enrichVars>>
       ELSE /\ respond(computeSnapshotGainers(a.rows, limit, now))
            /\ UNCHANGED <<loop_i, loop_d>>
    /\ UNCHANGED <<beyondGainers, now, dst, req, probes, dateStr, grouped, tickers>>

\* GET /gainers and GET /market/top-gainers, resumed by the answer a of
\* fetchGrouped: an exception reaches the outer catch, a returned walk is
\* turned into the response.
gainers_fetchGrouped(a) ==
    /\ pc = "fetchGrouped" /\ req.route \in GainersRoutes
    /\ findLastTradingDayNY(a)
    /\ IF a.out = "throws"
       THEN res' = Error500 /\ pc' = "done" /\ UNCHANGED <<FUND_CACHE, got, enrichVars>>
       ELSE IF Returned(a)
            THEN respond(computeGainers(dateStr', grouped', limit))
            ELSE UNCHANGED <<res, pc, FUND_CACHE, got, enrichVars>>
    /\ UNCHANGED <<beyondGainers, now, dst, req, snapshot, tickers>>

\* GET /api/gainers: tickers.push for every row whose ticker is new.
RECURSIVE push(_, _, _)
push(list, rows, max) ==
    IF rows = <<>> \/ Len(list) >= max THEN list
    ELSE LET row == Head(rows)
             entry == [ticker |-> row.ticker, change |-> row.change,
                       change_pct |-> row.pctChange, volume |-> row.volume]
             seen == {list[k].ticker : k \in 1..Len(list)}
         IN  push(IF row.ticker # "" /\ row.ticker \notin seen THEN Append(list, entry) ELSE list,
                  Tail(rows), max)

\* GET /api/gainers, resumed by the answer a of the snapshot source: the
\* snapshot rows are collected, and computeGainers is called if they are
\* fewer than limit.
api_gainers_snapshot(a) ==
    /\ pc = "snapshot" /\ req.route = "/api/gainers"
    /\ snapshot' = [a EXCEPT !.at = now]
    /\ tickers' = IF a.out = "throws" THEN <<>>
                  ELSE push(<<>>, computeSnapshotGainers(a.rows, limit, now).results,
                            Len(a.rows))
    /\ IF Len(tickers') < limit.n
       THEN findLastTradingDayNY_called /\ UNCHANGED res
       ELSE res' = Json([tickers |-> tickers']) /\ pc' = "done" /\ UNCHANGED <<loop_i, loop_d>>
    /\ UNCHANGED <<relayVars, apiVars, now, dst, req, probes, dateStr, grouped>>

\* GET /api/gainers, resumed by the answer a of fetchGrouped.
api_gainers_fetchGrouped(a) ==
    /\ pc = "fetchGrouped" /\ req.route = "/api/gainers"
    /\ findLastTradingDayNY(a)
    /\ IF a.out = "throws"
       THEN res' = Error500 /\ pc' = "done" /\ UNCHANGED tickers
       ELSE IF Returned(a)
            THEN /\ tickers' = push(tickers,
                                    computeGainers(dateStr', grouped', limit).results, limit.n)
                 /\ res' = Json([tickers |-> tickers'])
                 /\ pc' = "done"
            ELSE UNCHANGED <<res, pc, tickers>>
    /\ UNCHANGED <<relayVars, apiVars, now, dst, req, snapshot>>

\* ---------------------------------------- src/unnamed/part_006 (historical)
\* What req.query.days_back may be; "" stands for an absent parameter.
QueryDaysBack == {"", "2", "1", "0", "-1", "-2", "abc"}

\* A bar of the aggregates endpoint, and the answers of the call.
Bar == [c |-> 101, o |-> 100, h |-> 102, l |-> 99, v |-> 1000, t |-> 1, n |-> 7]
AggsAnswers == {Throws, Returns(<<>>), Returns(<<Bar>>)}

\* (data?.results || []).map(bar => ({ c, o, h, l, v, t }))
shape(rows) ==
    [k \in 1..Len(rows) |->
        [c |-> rows[k].c, o |-> rows[k].o, h |-> rows[k].h,
         l |-> rows[k].l, v |-> rows[k].v, t |-> rows[k].t]]

\* Faulty variant of historical_get: the loop of findLastTradingDayNY tests
\* i < maxBack after its body, not before it.
historical_get_tests_after(q) ==
    /\ pc = "idle"
    /\ req' = [route |-> "/historical/:symbol", limit |-> "", days_back |-> q,
                include |-> ""]
    /\ loop_d' = now /\ loop_i' = 0
    /\ pc' = "fetchGrouped"
    /\ UNCHANGED <<relayVars, apiVars, now, dst, probes, snapshot, dateStr, grouped, tickers, res>>

\* GET /historical/:symbol arrives: findLastTradingDayNY(maxBack) runs up to
\* its first await fetchGrouped(dateStr), or, if its loop is not entered,
\* returns "yesterday" with no data and the handler runs up to its await
\* makePolygonRequest for the aggregates.
historical_get(q) ==
    /\ pc = "idle"
    /\ req' = [route |-> "/historical/:symbol", limit |-> "", days_back |-> q,
                include |-> ""]
    /\ loop_d' = now /\ loop_i' = 0
    /\ IF LessThan(0, maxBack')
       THEN pc' = "fetchGrouped" /\ UNCHANGED <<dateStr, grouped>>
       ELSE pc' = "aggs" /\ dateStr' = ymdNY(addDays(now, -1)) /\ grouped' = <<>>
    /\ UNCHANGED <<relayVars, apiVars, now, dst, probes, snapshot, tickers, res>>

\* GET /historical/:symbol, resumed by the answer a of fetchGrouped: an
\* exception reaches the catch, a returned walk is followed by the call for
\* the aggregates of dateStr.
historical_fetchGrouped(a) ==
    /\ pc = "fetchGrouped" /\ req.route = "/historical/:symbol"
    /\ findLastTradingDayNY(a)
    /\ IF a.out = "throws" THEN res' = Error500 /\ pc' = "done"
       ELSE IF Returned(a) THEN pc' = "aggs" /\ UNCHANGED res
            ELSE UNCHANGED <<res, pc>>
    /\ UNCHANGED <<relayVars, apiVars, now, dst, req, snapshot, tickers>>

\* GET /historical/:symbol, resumed by the answer a of the aggregates call.
historical_aggs(a) ==
    /\ pc = "aggs"
    /\ res' = IF a.out = "throws" THEN Error500 ELSE Json([results |-> shape(a.rows)])
    /\ pc' = "done"
    /\ UNCHANGED <<relayVars, apiVars, now, dst, req, loop_i, loop_d, probes, snapshot, dateStr,
                   grouped, tickers>>

\* ------------------------------------------ src/unnamed/part_006 (/api/news)
\* The configuration of the news route, in ticks of 30 s: the window of the
\* rate limiter (60 s), NEWS_RATE_LIMIT_PER_MIN, NEWS_RATE_MAP_MAX,
\* NEWS_CACHE_BENZINGA_SEC and NEWS_CACHE_STOCKS_SEC; and the length of a run.
NEWS_RATE_WINDOW_MS == 2
NEWS_RATE_MAX == 2
NEWS_RATE_MAP_MAX == 1
BENZINGA_TTL_MS == 1
STOCKS_NEWS_TTL_MS == 6
MaxNewsReqs == 4
MaxNewsClock == 3

Ips == {"ip1", "ip2"}

\* if (newsRateMap.size > NEWS_RATE_MAP_MAX): the entries older than the
\* window are deleted.
pruned(map) ==
    IF Len(map) > NEWS_RATE_MAP_MAX
    THEN SelectSeq(map, LAMBDA rec : ~(clock - rec.since > NEWS_RATE_WINDOW_MS))
    ELSE map

\* function checkNewsRateLimit(ip): newsRateMap afterwards and the result.
checkNewsRateLimit(ip) ==
    LET map == pruned(newsRateMap)
    IN  IF ~Map_has(map, ip)
        THEN [map |-> Map_set(map, [key |-> ip, count |-> 1, since |-> clock]), ok |-> TRUE]
        ELSE LET rec == Map_get(map, ip)
             IN  IF clock - rec.since > NEWS_RATE_WINDOW_MS
                 THEN [map |-> Map_set(map, [key |-> ip, count |-> 1, since |-> clock]),
                       ok |-> TRUE]
                 ELSE [map |-> Map_set(map, [rec EXCEPT !.count = @ + 1]),
                       ok |-> ~(rec.count + 1 > NEWS_RATE_MAX)]

\* const cacheKey = cursor ? null : `news:${source}:${ticker}:${limit}`, for
\* the one ticker and limit of the model.
cacheKey(source, cursor) == IF cursor THEN Null ELSE source

\* A request of the log: what the handler did on arrival. status is 0 if
\* it was suspended at await makeMassiveRequest.
NewsRequest(ip, status, upstream) ==
    [ip |-> ip, at |-> clock, status |-> status, upstream |-> upstream]

\* What req.query.source and req.query.cursor may be.
NewsQueries ==
    {[source |-> "benzinga", cursor |-> FALSE], [source |-> "stocks", cursor |-> FALSE],
     [source |-> "benzinga", cursor |-> TRUE]}

\* res.status(429).json({ error: "Too many requests", ... })
Error429 == [status |-> 429, body |-> [error |-> TRUE]]

\* Time passes.
Wait ==
    /\ clock < MaxNewsClock
    /\ clock' = clock + 1
    /\ UNCHANGED <<beyondNews, res, FUND_CACHE, NEWS_CACHE, cache, got, put, nCacheOps,
                   rateVars>>

\* GET /api/news/:symbol with a valid symbol arrives: 429 if the limiter
\* refuses; otherwise the cached payload is the response, or the handler
\* runs up to its await makeMassiveRequest.
api_news(ip, q) ==
    /\ Len(newsLog) < MaxNewsReqs
    /\ LET limiter == checkNewsRateLimit(ip)
           key == cacheKey(q.source, q.cursor)
           cached == IF ~limiter.ok \/ key = Null THEN Null ELSE Get(NEWS_CACHE, key).val
       IN  /\ newsRateMap' = limiter.map
           /\ IF ~limiter.ok
              THEN /\ newsLog' = Append(newsLog, NewsRequest(ip, 429, FALSE))
                   /\ res' = Error429
                   /\ UNCHANGED <<NEWS_CACHE, got, awaiting>>
              ELSE /\ IF key = Null THEN UNCHANGED <<NEWS_CACHE, got>>
                      ELSE /\ NEWS_CACHE' = Get(NEWS_CACHE, key).map
                           /\ got' = Lookup("newsCacheGet", NEWS_CACHE, key,
                                            Map_get(NEWS_CACHE, key).exp, cached)
                   /\ IF cached # Null
                      THEN /\ newsLog' = Append(newsLog, NewsRequest(ip, 200, FALSE))
                           /\ res' = Json([source |-> cached])
                           /\ UNCHANGED awaiting
                      ELSE /\ newsLog' = Append(newsLog, NewsRequest(ip, 0, TRUE))
                           /\ awaiting' = Append(awaiting, q)
                           /\ UNCHANGED res
    /\ UNCHANGED <<beyondNews, clock, FUND_CACHE, cache, put, nCacheOps>>

\* GET /api/news/:symbol, the k-th suspended request, resumed by
\* makeMassiveRequest: the payload is cached (unless the request had a
\* cursor) and sent, or the exception is answered with 500.
api_news_answered(k, throws) ==
    /\ k \in 1..Len(awaiting)
    /\ LET q == awaiting[k]
           key == cacheKey(q.source, q.cursor)
           ttl == IF q.source = "stocks" THEN STOCKS_NEWS_TTL_MS ELSE BENZINGA_TTL_MS
       IN  /\ awaiting' = SubSeq(awaiting, 1, k - 1) \o SubSeq(awaiting, k + 1, Len(awaiting))
           /\ res' = IF throws THEN Error500 ELSE Json([source |-> q.source])
           /\ IF throws \/ key = Null THEN UNCHANGED <<NEWS_CACHE, put>>
              ELSE /\ NEWS_CACHE' = Set(NEWS_CACHE, NEWS_CACHE_MAX, key, q.source, ttl)
                   /\ put' = Store("newsCacheSet", NEWS_CACHE, NEWS_CACHE_MAX, key)
    /\ UNCHANGED <<beyondNews, clock, FUND_CACHE, cache, got, nCacheOps, newsRateMap, newsLog>>

\* The limiter as the module creates it, and no request yet.
NoNews == newsRateMap = <<>> /\ newsLog = <<>> /\ awaiting = <<>>

\* ---------------------------------- src/unnamed/part_006 (/api/shared-tickers)
\* The hour of New York's clock at which the trading day ends, and how many
\* hours a run lasts.
MarketClose == 18
MaxSharedHours == 10

\* The instants a run may start at: 15:00 and 16:00 standard time of the day
\* before TransitionDay.
SharedStartHours == {HoursPerDay * TransitionDay - 9, HoursPerDay * TransitionDay - 8}

\* getNYTime().getHours()
getHours(t) == (t + NYOffset(t)) % HoursPerDay

\* function isAfterMarketClose()
isAfterMarketClose == getHours(now) >= MarketClose

\* What the header x-user-email may be ("" stands for an absent header), and
\* userEmail.trim().toLowerCase().
Emails == {"", "user@example.com", " Admin@Example.com "}
trim_toLowerCase(email) ==
    IF email = " Admin@Example.com " THEN "admin@example.com" ELSE email

\* function isDeveloperMode(req)
isDeveloperMode(email) ==
    trim_toLowerCase(email) \in
        {"admin@example.com", "joeyrooker06@gmail.com", "greenhorizontrading06@gmail.com"}

\* What req.body.symbol and req.params.symbol may be ("" stands for an absent
\* symbol), and String(symbol).toUpperCase().trim().
BodySymbols == {"", "aapl", " MSFT", "$$"}
toUpperCase_trim(symbol) ==
    CASE symbol = "aapl"  -> "AAPL"
      [] symbol = " MSFT" -> "MSFT"
      [] OTHER            -> symbol

\* function validTicker(s), for the strings of the model.
ValidTickers == {"AAPL", "MSFT"}
validTicker(s) == s \in ValidTickers

\* Faulty variant of checkTradingDayReset: the tickers are cleared when the
\* date changes only.
checkTradingDayReset_by_date_only ==
    IF ymdNY(now) # currentTradingDay
    THEN [sharedTickers |-> <<>>, currentTradingDay |-> ymdNY(now)]
    ELSE [sharedTickers |-> sharedTickers, currentTradingDay |-> currentTradingDay]

\* function checkTradingDayReset(): sharedTickers and currentTradingDay
\* afterwards.
checkTradingDayReset ==
    IF ymdNY(now) # currentTradingDay \/ isAfterMarketClose
    THEN [sharedTickers |-> <<>>, currentTradingDay |-> ymdNY(now)]
    ELSE [sharedTickers |-> sharedTickers, currentTradingDay |-> currentTradingDay]

\* Array.from(sharedTickers.values())
values(map) ==
    [j \in 1..Len(map) |->
        [symbol |-> map[j].symbol, addedAt |-> map[j].addedAt, addedBy |-> map[j].addedBy]]

NotPosted == -1
Served(method) == [method |-> method, at |-> now]

\* Time passes between requests: h hours.
Later(h) ==
    /\ \E start \in SharedStartHours : now + h <= start + MaxSharedHours
    /\ now' = now + h
    /\ UNCHANGED <<beyondShared, res, sharedVars>>

\* GET /api/shared-tickers
shared_get ==
    /\ LET reset == checkTradingDayReset
       IN  /\ sharedTickers' = reset.sharedTickers
           /\ currentTradingDay' = reset.currentTradingDay
           /\ res' = Json([success |-> TRUE, tickers |-> values(reset.sharedTickers)])
    /\ served' = Served("GET")
    /\ UNCHANGED <<beyondShared, now, posted>>

\* Faulty variant of shared_post: the symbol is stored before the request is
\* checked for developer mode.
shared_post_checks_late(email, symbol) ==
    LET reset == checkTradingDayReset
        ticker == toUpperCase_trim(symbol)
        entry == [key |-> ticker, symbol |-> ticker, addedAt |-> toISOString(now),
                  addedBy |-> IF email = "" THEN "unknown" ELSE email]
    IN  /\ currentTradingDay' = reset.currentTradingDay
        /\ served' = Served("POST")
        /\ IF symbol = "" \/ ~validTicker(ticker)
           THEN /\ res' = [status |-> 400, body |-> [error |-> TRUE]]
                /\ sharedTickers' = reset.sharedTickers
                /\ UNCHANGED posted
           ELSE /\ sharedTickers' = Map_set(reset.sharedTickers, entry)
                /\ posted' = [posted EXCEPT ![ticker] = now]
                /\ res' = IF ~isDeveloperMode(email)
                          THEN [status |-> 403, body |-> [error |-> TRUE]]
                          ELSE Json([success |-> TRUE, ticker |-> values(<<entry>>)[1]])
        /\ UNCHANGED <<beyondShared, now>>

\* POST /api/shared-tickers with header x-user-email: email and body
\* { symbol }.
shared_post(email, symbol) ==
    LET reset == checkTradingDayReset
        ticker == toUpperCase_trim(symbol)
        entry == [key |-> ticker, symbol |-> ticker, addedAt |-> toISOString(now),
                  addedBy |-> IF email = "" THEN "unknown" ELSE email]
    IN  /\ currentTradingDay' = reset.currentTradingDay
        /\ served' = Served("POST")
        /\ IF ~isDeveloperMode(email)
           THEN /\ res' = [status |-> 403, body |-> [error |-> TRUE]]
                /\ sharedTickers' = reset.sharedTickers
                /\ UNCHANGED posted
           ELSE IF symbol = "" \/ ~validTicker(ticker)
           THEN /\ res' = [status |-> 400, body |-> [error |-> TRUE]]
                /\ sharedTickers' = reset.sharedTickers
                /\ UNCHANGED posted
           ELSE /\ sharedTickers' = Map_set(reset.sharedTickers, entry)
                /\ posted' = [posted EXCEPT ![ticker] = now]
                /\ res' = Json([success |-> TRUE, ticker |-> values(<<entry>>)[1]])
        /\ UNCHANGED <<beyondShared, now>>

\* DELETE /api/shared-tickers/:symbol: app.param answers an invalid symbol
\* with 400 before the handler runs.
shared_delete(symbol) ==
    /\ symbol # ""
    /\ served' = Served("DELETE")
    /\ IF ~validTicker(toUpperCase_trim(symbol))
       THEN /\ res' = [status |-> 400, body |-> [error |-> TRUE]]
            /\ UNCHANGED <<sharedTickers, currentTradingDay, posted>>
       ELSE LET reset == checkTradingDayReset
                ticker == toUpperCase_trim(symbol)
            IN  /\ currentTradingDay' = reset.currentTradingDay
                /\ sharedTickers' = Map_delete(reset.sharedTickers, ticker)
                /\ posted' = IF Map_has(reset.sharedTickers, ticker)
                             THEN [posted EXCEPT ![ticker] = NotPosted]
                             ELSE posted
                /\ res' = IF Map_has(reset.sharedTickers, ticker)
                          THEN Json([success |-> TRUE])
                          ELSE [status |-> 404, body |-> [error |-> TRUE]]
    /\ UNCHANGED <<beyondShared, now>>

\* The shared tickers as the module creates them, and no request yet.
NoShared ==
    /\ sharedTickers = <<>> /\ currentTradingDay = ymdNY(now)
    /\ served = [method |-> "", at |-> 0]
    /\ posted = [t \in ValidTickers |-> NotPosted]

\* ------------------------------------------------------------------ system
\* The state once the module has been loaded: server.js has already called
\* connectPolygonWS() (line 108); the other two have no upstream socket yet.
RelayInit ==
    /\ impl \in Impls
    /\ up = [s \in SocketIds |->
               IF impl = "server_js" /\ s = 1 THEN NewSocket(0) ELSE NoSocket]
    /\ nUp = IF impl = "server_js" THEN 1 ELSE 0
    /\ polygonSocket = IF impl = "server_js" THEN 1 ELSE 0
    /\ polygonWs = 0
    /\ polygonConnected = FALSE
    /\ timers = 0
    /\ cl = [c \in ClientIds |-> NoClient]
    /\ upstreamClients = {}
    /\ wssClients = {}
    /\ nFrames = 0
    /\ lastFrame = <<0, NoMsg>>
    /\ nMsgs = 0
    /\ lastMsg = <<0, NoMsg>>
    /\ crashed = FALSE

\* No state on the HTTP side beyond what the modules create when loaded.
ApiIdle == CachesEmpty /\ NoNews /\ NoShared /\ NoEnrichment

\* The relay alone: no request reaches the HTTP side.
Init == RelayInit /\ HttpIdle /\ ApiIdle

Next ==
    \/ \E s \in SocketIds : UpClosing(s)
    \/ \E c \in ClientIds : ClientClosing(c)
    \/ TimerFires
    \/ \E s \in SocketIds : polygonSocket_open(s)
    \/ \E s \in SocketIds, m \in Frames : polygonSocket_message(s, m)
    \/ \E s \in SocketIds : polygonSocket_close(s)
    \/ \E s \in SocketIds : polygonSocket_error(s)
    \/ \E c \in ClientIds : wss_connection(c)
    \/ \E c \in ClientIds, m \in ClientMsgs : ws_message(c, m)
    \/ \E c \in ClientIds : ws_close(c)
    \/ \E c \in ClientIds : ws_error(c)
    \/ \E c \in ClientIds : P2_wss_connection(c)
    \/ \E s \in SocketIds : P2_polygonWs_open(s)
    \/ \E s \in SocketIds, m \in Frames : P2_polygonWs_message(s, m)
    \/ \E s \in SocketIds : P2_polygonWs_error(s)
    \/ \E s \in SocketIds : P2_polygonWs_close(s)
    \/ \E c \in ClientIds, m \in ClientMsgs : P2_ws_message(c, m)
    \/ \E c \in ClientIds : P2_ws_close(c)
    \/ \E c \in ClientIds : P2_ws_error(c)
    \/ \E c \in ClientIds : P6_wss_connection(c)
    \/ \E s \in SocketIds : P6_upstream_open(s)
    \/ \E s \in SocketIds, m \in Frames : P6_upstream_message(s, m)
    \/ \E c \in ClientIds, m \in ClientMsgs : P6_wsClient_message(c, m)
    \/ \E c \in ClientIds : P6_wsClient_close(c)
    \/ \E c \in ClientIds : P6_wsClient_error(c)
    \/ \E s \in SocketIds : P6_upstream_close(s)
    \/ \E s \in SocketIds : P6_upstream_error(s)

Spec == Init /\ [][Next]_vars

\* The process with no relay traffic and one request to a gainers route.
GainersInit ==
    /\ RelayInit /\ impl = "part_006"
    /\ now \in StartHours /\ dst \in DstCases
    /\ req = NoRequest /\ pc = "idle"
    /\ loop_i = 0 /\ loop_d = 0 /\ probes = <<>>
    /\ snapshot = Pending /\ dateStr = NoDate /\ grouped = <<>>
    /\ tickers = <<>> /\ res = NoResponse
    /\ ApiIdle

GainersNext ==
    \/ Tick
    \/ \E route \in Routes, q \in QueryLimits : app_get(route, q, "")
    \/ \E a \in SnapshotAnswers : gainers_snapshot(a)
    \/ \E a \in GroupedAnswers : gainers_fetchGrouped(a)
    \/ \E a \in SnapshotAnswers : api_gainers_snapshot(a)
    \/ \E a \in GroupedAnswers : api_gainers_fetchGrouped(a)

GainersSpec == GainersInit /\ [][GainersNext]_vars

\* The process with no relay traffic and one request to GET /historical/:symbol.
HistoricalNext ==
    \/ Tick
    \/ \E q \in QueryDaysBack : historical_get(q)
    \/ \E a \in GroupedAnswers : historical_fetchGrouped(a)
    \/ \E a \in AggsAnswers : historical_aggs(a)

HistoricalSpec == GainersInit /\ [][HistoricalNext]_vars

\* Every await of GET /historical/:symbol is settled: fetch resolves or
\* rejects.
HistoricalFairSpec ==
    /\ HistoricalSpec
    /\ WF_vars(\E a \in GroupedAnswers : historical_fetchGrouped(a))
    /\ WF_vars(\E a \in AggsAnswers : historical_aggs(a))

\* The caches of a process that other code leaves alone.
CacheInit ==
    /\ RelayInit /\ impl \in {"server_js", "part_006"}
    /\ HttpIdle /\ ApiIdle

CacheNext ==
    \/ Elapse
    \/ \E key \in CacheKeys : cacheGet(key)
    \/ \E key \in CacheKeys, val \in CacheVals, ttl \in Ttls : cacheSet(key, val, ttl)
    \/ \E key \in CacheKeys : newsCacheGet(key)
    \/ \E key \in CacheKeys, val \in CacheVals, ttl \in Ttls : newsCacheSet(key, val, ttl)
    \/ \E key \in CacheKeys : getCache(key)
    \/ \E key \in CacheKeys, val \in CacheVals, ttl \in Ttls : setCache(key, val, ttl)

CacheSpec == CacheInit /\ [][CacheNext]_vars

\* The process with no relay traffic and requests to GET /api/news/:symbol.
NewsInit == RelayInit /\ impl = "part_006" /\ HttpIdle /\ ApiIdle

NewsNext ==
    \/ Wait
    \/ \E ip \in Ips, q \in NewsQueries : api_news(ip, q)
    \/ \E k \in 1..MaxNewsReqs, throws \in BOOLEAN : api_news_answered(k, throws)

NewsSpec == NewsInit /\ [][NewsNext]_vars

\* The process with no relay traffic and requests to the routes of the shared
\* tickers; the module was loaded on the day a run starts or the day before.
SharedInit ==
    /\ RelayInit /\ impl = "part_006"
    /\ now \in SharedStartHours /\ dst \in DstCases
    /\ req = NoRequest /\ pc = "idle"
    /\ loop_i = 0 /\ loop_d = 0 /\ probes = <<>>
    /\ snapshot = Pending /\ dateStr = NoDate /\ grouped = <<>>
    /\ tickers = <<>> /\ res = NoResponse
    /\ CachesEmpty /\ NoNews /\ NoEnrichment
    /\ sharedTickers = <<>>
    /\ currentTradingDay \in {ymdNY(now), ymdNY(addDays(now, -1))}
    /\ served = [method |-> "", at |-> 0]
    /\ posted = [t \in ValidTickers |-> NotPosted]

SharedNext ==
    \/ \E h \in {1, 6} : Later(h)
    \/ shared_get
    \/ \E email \in Emails, symbol \in BodySymbols : shared_post(email, symbol)
    \/ \E symbol \in BodySymbols : shared_delete(symbol)

SharedSpec == SharedInit /\ [][SharedNext]_vars

\* Snapshot rows of which seven are admitted, more than limitedMap has
\* runners.
SnapshotSeven ==
    [k \in 1..7 |->
        SnapshotRow(<<"T1", "T2", "T3", "T4", "T5", "T6", "T7">>[k], Undefined, Undefined,
                    Number(1000 * (8 - k)), Number(100 * (8 - k)), Number(10))]

\* A cache entry for the overview of ticker, made of results with every
\* field, that expires at exp.
Cached(ticker, exp) ==
    [key |-> ticker, exp |-> exp,
     val |-> overview(Overview(String, String, Number(5), Number(7), Number(9)).results)]

\* The process with no relay traffic and one request to a gainers route that
\* may ask for enrichment; the fundamentals cache is empty or holds the
\* overview of one ticker, fresh or expired.
EnrichInit ==
    /\ RelayInit /\ impl = "part_006"
    /\ now = LastHour /\ dst = "none"
    /\ req = NoRequest /\ pc = "idle"
    /\ loop_i = 0 /\ loop_d = 0 /\ probes = <<>>
    /\ snapshot = Pending /\ dateStr = NoDate /\ grouped = <<>>
    /\ tickers = <<>> /\ res = NoResponse
    /\ clock = 1
    /\ FUND_CACHE \in {<<>>, <<Cached("T2", 1 + TTL_MS)>>, <<Cached("T2", 0)>>}
    /\ NEWS_CACHE = <<>> /\ cache = <<>>
    /\ got = NoLookup /\ put = NoStore /\ nCacheOps = 0
    /\ NoNews /\ NoShared /\ NoEnrichment

EnrichNext ==
    \/ \E route \in GainersRoutes, include \in QueryIncludes : app_get(route, "", include)
    \/ \E a \in SnapshotAnswers \cup {Returns(SnapshotSeven)} : gainers_snapshot(a)
    \/ \E a \in GroupedAnswers : gainers_fetchGrouped(a)
    \/ \E idx \in 1..7, a \in OverviewAnswers : overview_answered(idx, a)

EnrichSpec == EnrichInit /\ [][EnrichNext]_vars

\* The per-client relay alone, with the liveness the ws library gives: a
\* socket on which close() was called, or whose peer has started the closing
\* handshake, emits close in the end (after its error, if the handshake was
\* aborted).
PassthroughInit == RelayInit /\ impl = "part_006" /\ HttpIdle /\ ApiIdle

PassthroughNext ==
    \/ \E s \in SocketIds : UpClosing(s)
    \/ \E c \in ClientIds : ClientClosing(c)
    \/ \E c \in ClientIds : P6_wss_connection(c)
    \/ \E s \in SocketIds : P6_upstream_open(s)
    \/ \E s \in SocketIds, m \in Frames : P6_upstream_message(s, m)
    \/ \E c \in ClientIds, m \in ClientMsgs : P6_wsClient_message(c, m)
    \/ \E c \in ClientIds : P6_wsClient_close(c)
    \/ \E c \in ClientIds : P6_wsClient_error(c)
    \/ \E s \in SocketIds : P6_upstream_close(s)
    \/ \E s \in SocketIds : P6_upstream_error(s)

PassthroughFairSpec ==
    /\ PassthroughInit /\ [][PassthroughNext]_vars
    /\ \A c \in ClientIds : WF_vars(cl[c].rs = "CLOSING" /\ P6_wsClient_close(c))
    /\ \A s \in SocketIds : WF_vars(up[s].rs = "CLOSING" /\ P6_upstream_close(s))
    /\ \A s \in SocketIds : WF_vars(up[s].rs = "CLOSING" /\ P6_upstream_error(s))

\* ------------------------------------------------------- derived notions
\* The subscriber set of the running implementation.
Registered == IF impl = "server_js" THEN upstreamClients ELSE wssClients

\* Sockets that are neither unconstructed nor CLOSED.
OpenEnded == {s \in SocketIds : up[s].rs \in {"CONNECTING", "OPEN", "CLOSING"}}

\* The auth messages with the relay's credential sent on socket s.
RelayAuthsOn(s) == {i \in 1..Len(up[s].sent) : up[s].sent[i].msg = RelayAuth}

\* Spec state Streaming: the transport is open and the auth message is out.
Streaming(s) ==
    /\ up[s].rs = "OPEN"
    /\ Len(up[s].sent) >= 1
    /\ up[s].sent[1] = [msg |-> RelayAuth, from |-> 0]

\* The entries of a sent log that a client's message caused.
FromClients(log) == SelectSeq(log, LAMBDA e : e.from # 0)

\* This step is the handling of one upstream frame / one client message.
FrameStep == nFrames' = nFrames + 1
MsgStep == nMsgs' = nMsgs + 1
LastFrame == lastFrame'[2]
LastMsg == lastMsg'

\* ----------------------------------------------------------------- claims

\* C1: in the shared relay of server.js, at every moment exactly one of the
\* following exists: an upstream socket that is CONNECTING, OPEN or CLOSING,
\* or one pending reconnect timer. Hence at most one socket is Connecting or
\* Open, each close leaves exactly one scheduled attempt, and a timer never
\* finds the current socket Connecting or Open (so connectPolygonWS never
\* constructs a socket beside a live one).
C1_SingleAttempt ==
    impl = "server_js" =>
        /\ Cardinality(LiveSockets) <= 1
        /\ timers + Cardinality(OpenEnded) = 1
        /\ polygonSocket = nUp
        /\ \A s \in SocketIds : s < nUp => up[s].rs = "CLOSED"

\* C1 witness: the first socket closed and the reconnect produced a second
\* socket, now open, with a subscriber attached.
C1_Witness ==
    /\ impl = "server_js"
    /\ up[1].rs = "CLOSED" /\ up[2].rs = "OPEN"
    /\ upstreamClients # {}

\* C2: every upstream close (after an error or clean) is followed, with no
\* subscriber acting, by a new connection attempt: once a socket is CLOSED a
\* reconnect is pending or a later socket has been constructed. Stated for
\* both shared relays (server.js and part_002).
C2_ReconnectAfterClose ==
    impl \in {"server_js", "part_002"} =>
        \A s \in SocketIds : up[s].rs = "CLOSED" => (timers > 0 \/ nUp > s)

\* C3: in server.js every socket that opened carries exactly one auth
\* message with the relay's credential, as its first message, and a socket
\* that has not opened carries none.
C3_AuthOnEveryOpen ==
    impl = "server_js" =>
        \A s \in SocketIds :
            /\ up[s].rs \in {"NONE", "CONNECTING"} => up[s].sent = <<>>
            /\ up[s].rs = "OPEN" => Streaming(s)
            /\ up[s].sent # <<>> => RelayAuthsOn(s) = {1} /\ up[s].sent[1].from = 0

\* C3 witness: the first connection authenticated and closed, and the
\* reconnected socket has sent the auth message again.
C3_Witness ==
    /\ impl = "server_js"
    /\ up[1].rs = "CLOSED" /\ RelayAuthsOn(1) = {1}
    /\ up[2].rs = "OPEN" /\ RelayAuthsOn(2) = {1}

\* C4: whatever the number of attached subscribers, at most one upstream
\* socket is Connecting or Open (all three relays).
C4_SingleUpstream == Cardinality(LiveSockets) <= 1

\* Delivery of frame m in this step to exactly the subscribers that are
\* registered and OPEN when it arrives, unmodified, once.
DeliveredToOpenRegistered(m) ==
    \A c \in ClientIds :
        cl'[c].recv = IF c \in Registered /\ cl[c].rs = "OPEN"
                      THEN Append(cl[c].recv, m)
                      ELSE cl[c].recv

\* No subscriber receives anything in this step.
NothingDelivered == \A c \in ClientIds : cl'[c].recv = cl[c].recv

\* C5 as stated: every upstream message, whatever its content, reaches
\* exactly the registered open subscribers, unmodified and once (the shared
\* relays server.js and part_002).
C5_EveryFrameDelivered ==
    [][(impl \in {"server_js", "part_002"}) =>
          (IF FrameStep THEN DeliveredToOpenRegistered(LastFrame)
           ELSE NothingDelivered)]_vars

\* C5 amended: every upstream message that is JSON text (valid UTF-8 that
\* JSON.parse accepts) reaches exactly the registered open subscribers,
\* unmodified and once; no step other than the arrival of a frame delivers
\* anything.
C5_JsonFrameDelivered ==
    [][(impl \in {"server_js", "part_002"}) =>
          (IF FrameStep
           THEN (LastFrame.json /\ LastFrame.utf8) => DeliveredToOpenRegistered(LastFrame)
           ELSE NothingDelivered)]_vars

\* C5 witness: two subscribers attached, one JSON frame pushed, both hold it.
C5_Witness ==
    /\ impl \in {"server_js", "part_002"}
    /\ nFrames = 1 /\ lastFrame[2].json /\ lastFrame[2].utf8
    /\ Registered = {1, 2}
    /\ \A c \in Registered : cl[c].rs = "OPEN" /\ cl[c].recv = <<lastFrame[2]>>

\* C6 as stated: when a frame arrives while a registered subscriber's socket
\* is not OPEN (delivery to it fails), every registered OPEN subscriber
\* still receives the frame and the failing one leaves the subscriber set
\* (server.js).
C6_FailingSubscriberDetached ==
    [][(impl = "server_js" /\ FrameStep) =>
          \A c \in upstreamClients :
              IF cl[c].rs = "OPEN"
              THEN cl'[c].recv = Append(cl[c].recv, LastFrame)
              ELSE c \notin upstreamClients']_vars

\* C7: in server.js a subscriber whose close has been processed is out of
\* upstreamClients and its received log never grows again, the close
\* removes that subscriber and no other, and every subscriber that is still
\* registered and OPEN receives each later frame.
C7_DetachedReceivesNothing ==
    [][(impl = "server_js") =>
          /\ \A c \in ClientIds :
                /\ cl'[c].rs = "CLOSED" => c \notin upstreamClients'
                /\ cl[c].rs = "CLOSED" => cl'[c] = cl[c]
                /\ (cl[c].rs # "CLOSED" /\ cl'[c].rs = "CLOSED") =>
                       upstreamClients' = upstreamClients \ {c}
          /\ FrameStep =>
                \A c \in upstreamClients :
                    cl[c].rs = "OPEN" => cl'[c].recv = Append(cl[c].recv, LastFrame)]_vars

\* C7 witness: both subscribers received the first frame, subscriber 1 then
\* detached, and only subscriber 2 received the second frame.
C7_Witness ==
    /\ impl = "server_js"
    /\ nFrames = 2
    /\ cl[1].rs = "CLOSED" /\ Len(cl[1].recv) = 1
    /\ cl[2].rs = "OPEN" /\ cl[2].recv = Append(cl[1].recv, lastFrame[2])
    /\ upstreamClients = {2}

\* The upstream socket a message of client c is forwarded on.
Target(c) == IF impl = "part_006" THEN cl[c].upstream ELSE polygonSocket

\* C8: a client message is appended to the upstream socket's sent log in the
\* step that receives it if and only if that socket is Streaming then; a
\* message received in any other state changes nothing, and no later step
\* (an open after a reconnect included) sends a client's message (server.js
\* and part_006).
C8_ForwardIffStreaming ==
    [][(impl \in {"server_js", "part_006"}) =>
          (IF MsgStep
           THEN LET c == LastMsg[1]
                    s == Target(c)
                IN  /\ crashed' = crashed
                    /\ IF s # 0 /\ Streaming(s)
                       THEN /\ Len(up'[s].sent) = Len(up[s].sent) + 1
                            /\ SubSeq(up'[s].sent, 1, Len(up[s].sent)) = up[s].sent
                            /\ up'[s].sent[Len(up'[s].sent)].from = c
                            /\ \A r \in SocketIds \ {s} : up'[r] = up[r]
                       ELSE up' = up
           ELSE \A s \in SocketIds :
                    FromClients(up'[s].sent) = FromClients(up[s].sent))]_vars

\* C8 witness: a client message arrived while the upstream was not
\* Streaming; after the reconnect the new socket is Streaming and no socket
\* has ever carried a client's message.
C8_Witness ==
    /\ impl = "server_js"
    /\ nMsgs = 1
    /\ up[1].rs = "CLOSED" /\ Streaming(2)
    /\ \A s \in SocketIds : FromClients(up[s].sent) = <<>>

\* C9: every auth message on an upstream socket carries the relay's own
\* credential, whatever the clients send (all three relays).
C9_OnlyRelayCredential ==
    \A s \in SocketIds : \A i \in 1..Len(up[s].sent) :
        up[s].sent[i].msg.action = "auth" => up[s].sent[i].msg.params = POLYGON_API_KEY

\* C10: an attach registers the subscriber and, when no upstream socket is
\* Connecting or Open, constructs one in the same step; otherwise it
\* constructs none (server.js and part_002).
C10_AttachConnects ==
    [][(impl \in {"server_js", "part_002"}) =>
          \A c \in ClientIds :
              (cl[c].rs = "NONE" /\ cl'[c].rs = "OPEN") =>
                  /\ c \in Registered'
                  /\ IF LiveSockets = {}
                     THEN nUp' = nUp + 1 /\ up'[nUp'].rs = "CONNECTING"
                     ELSE nUp' = nUp]_vars

\* C11 as stated: an upstream frame that JSON.parse rejects reaches no
\* subscriber and changes neither the upstream sockets, the connected flag,
\* the pending reconnects nor the subscriber set (the shared relays
\* server.js and part_002).
C11_MalformedFrameDropped ==
    [][(impl \in {"server_js", "part_002"} /\ FrameStep /\ ~JSONparses(LastFrame)) =>
          /\ NothingDelivered
          /\ up' = up /\ polygonConnected' = polygonConnected /\ timers' = timers
          /\ polygonSocket' = polygonSocket /\ polygonWs' = polygonWs
          /\ Registered' = Registered]_vars

\* ------------------------------------------------- claims on the gainers
\* The New York date of the instant at which findLastTradingDayNY was
\* called: the handler calls it in the step in which the snapshot answers.
Today == ymdNY(snapshot.at)

\* A fetchGrouped call that returned rows / returned none.
NonEmpty(p) == p.answer.out = "returns" /\ p.answer.rows # <<>>
Empty(p) == p.answer.out = "returns" /\ p.answer.rows = <<>>

C13_EmptyWalkReturnsYesterday ==
    (pc = "done" /\ Len(probes) = MaxBack /\ \A k \in 1..MaxBack : Empty(probes[k])) =>
        /\ res.status = 200
        /\ grouped = <<>>
        /\ dateStr.v \in {Today.v - 1, ymdNY(now).v - 1}
        /\ req.route \in GainersRoutes =>
               res.body = [date |-> dateStr, results |-> <<>>, source |-> "grouped"]

\* GET /gainers or its alias has answered with a result envelope.
Answered == pc = "done" /\ req.route \in GainersRoutes /\ res.status = 200

\* The rows the strategy that answered admits, before the limit is applied.
Admitted ==
    IF res.body.source = "snapshot"
    THEN computeSnapshotGainers(snapshot.rows, Number(SliceCap), now).results
    ELSE computeGainers(dateStr, grouped, Number(SliceCap)).results

\* C14 as stated: whatever limit is requested, GET /gainers answers with as
\* many rows as an effective limit between 1 and 200 allows: never more
\* than 200, and all the admitted rows or the effective limit of them.
C14_LimitClamped ==
    Answered =>
        /\ Len(res.body.results) <= 200
        /\ \E eff \in 1..200 :
               Len(res.body.results) = IF eff < Len(Admitted) THEN eff ELSE Len(Admitted)

\* Where the element a result row was made of stands in the upstream data.
SourceIndex(row) ==
    IF res.body.source = "snapshot"
    THEN CHOOSE k \in 1..Len(snapshot.rows) : snapshot.rows[k] = row.raw
    ELSE CHOOSE k \in 1..Len(grouped) : ~grouped[k].null /\ grouped[k].T = row.ticker

\* C15: the results of GET /gainers, from either strategy, are in
\* descending order of pctChange, and rows of equal pctChange stand in the
\* order of the upstream data.
C15_DescendingStable ==
    Answered =>
        LET rows == res.body.results
        IN  \A a, b \in 1..Len(rows) :
                a < b =>
                    /\ rows[a].pctChange.n >= rows[b].pctChange.n
                    /\ rows[a].pctChange.n = rows[b].pctChange.n =>
                           SourceIndex(rows[a]) < SourceIndex(rows[b])

\* C15 witness: the grouped strategy answered with four rows, two of them
\* with the same pctChange.
C15_Witness ==
    /\ Answered /\ res.body.source = "grouped"
    /\ Len(res.body.results) = 4
    /\ \E a, b \in 1..4 :
           a < b /\ res.body.results[a].pctChange = res.body.results[b].pctChange

\* |x|
Abs(x) == IF x < 0 THEN -x ELSE x

\* C16: every row of the grouped strategy carries the open and close of the
\* element it was made of, a pctChange that is the hundredth of a percent
\* nearest to (close - open) / open * 100 and a change that is the
\* ten-thousandth nearest to close - open; the data of the example gives AAA
\* with 20.00 followed by BBB with -10.00.
C16_RoundedChange ==
    (Answered /\ res.body.source = "grouped") =>
        LET rows == res.body.results
        IN  /\ \A k \in 1..Len(rows) :
                   LET src == grouped[SourceIndex(rows[k])]
                       o == rows[k].open.n
                       c == rows[k].close.n
                   IN  /\ rows[k].open = src.o /\ rows[k].close = src.c
                       /\ 2 * Abs(rows[k].pctChange.n * o - 10000 * (c - o)) <= o
                       /\ 2 * Abs(rows[k].change.n - (c - o)) <= 10
                       /\ rows[k].change.n % 10 = 0
            /\ (grouped = GroupedExample /\ limit # NaN /\ limit.n >= 2) =>
                   /\ Len(rows) = 2
                   /\ rows[1].ticker = "AAA" /\ rows[1].pctChange = Number(2000)
                   /\ rows[2].ticker = "BBB" /\ rows[2].pctChange = Number(-1000)

\* C16 witness: the grouped strategy answered with a row whose pctChange and
\* change are not the exact quotient and difference.
C16_Witness ==
    /\ Answered /\ res.body.source = "grouped"
    /\ \E k \in 1..Len(res.body.results) :
           LET row == res.body.results[k]
           IN  /\ row.pctChange.n * row.open.n # 10000 * (row.close.n - row.open.n)
               /\ row.change.n # row.close.n - row.open.n

\* The two prices a row's change is computed from: open and close in a row
\* of the grouped strategy; a row of the snapshot strategy has no fields of
\* these names, its previousClose and last stand for them.
RowOpen(row) == IF res.body.source = "grouped" THEN row.open ELSE row.previousClose
RowClose(row) == IF res.body.source = "grouped" THEN row.close ELSE row.last

\* C17 as stated: every row in the results of GET /gainers, from either
\* strategy, has a numeric open and close with open > 0.
C17_AdmittedRowsPriced ==
    Answered =>
        \A k \in 1..Len(res.body.results) :
            LET row == res.body.results[k]
            IN  /\ RowOpen(row).type = "number" /\ RowOpen(row).n > 0
                /\ RowClose(row).type = "number"

\* The last fetchGrouped call threw.
GroupedThrew == probes # <<>> /\ probes[Len(probes)].answer.out = "throws"

\* C18: in GET /gainers and its alias, a snapshot call that throws is
\* followed by the grouped strategy (its first fetchGrouped is under way in
\* the same step); the error payload is sent only when the snapshot call
\* threw and a fetchGrouped call threw; when the snapshot call threw and the
\* walk returned, the response is the grouped strategy's envelope; when the
\* snapshot call returned, the response is the snapshot strategy's envelope.
C18_FallbackOnThrow ==
    req.route \in GainersRoutes =>
        /\ snapshot.out = "throws" => (pc = "fetchGrouped" \/ probes # <<>>)
        /\ res.status = 500 => (snapshot.out = "throws" /\ GroupedThrew)
        /\ (pc = "done" /\ snapshot.out = "throws" /\ ~GroupedThrew) =>
               res.status = 200 /\ res.body.source = "grouped"
        /\ snapshot.out = "returns" =>
               pc = "done" /\ res.status = 200 /\ res.body.source = "snapshot" /\ probes = <<>>

\* C18 witness: the snapshot call threw and the response carries the rows
\* of the grouped strategy.
C18_Witness ==
    /\ Answered /\ snapshot.out = "throws"
    /\ res.body.source = "grouped" /\ res.body.results # <<>>

\* C19 as stated: when the snapshot source answers and none of its rows is
\* admitted, GET /gainers answers with the grouped strategy's rows and
\* source tag.
C19_FallbackOnEmpty ==
    (pc = "done" /\ req.route \in GainersRoutes /\ snapshot.out = "returns"
        /\ computeSnapshotGainers(snapshot.rows, Number(SliceCap), now).results = <<>>) =>
        res.status = 200 /\ res.body.source = "grouped"

\* C20 as stated: each of the three routes answers every request with a
\* result envelope, unless the snapshot call threw and the grouped strategy
\* failed too, and only then with the error payload.
C20_ErrorOnlyIfBothFail ==
    (pc = "done" /\ req.route \in Routes) =>
        /\ res.status \in {200, 500}
        /\ res.status = 500 <=> (snapshot.out = "throws" /\ GroupedThrew)

\* ---------------------------------------------- claims on the walk's bounds
\* The walk has made no fetch, or is not one whose loop can be entered.
NoIteration == maxBack = NaN \/ maxBack.n <= 0

\* The grouped fetches are within the walk's bounds: every fetch but the last
\* returned no rows, they are at most maxBack, and a walk with maxBack <= 0
\* or NaN has made none and has returned no data for the day before loop_d.
WalkBounded ==
    LET n == Len(probes)
    IN  /\ \A k \in 1..(n - 1) : Empty(probes[k])
        /\ ~NoIteration => n <= maxBack.n
        /\ (NoIteration /\ pc \in {"aggs", "done"}) =>
              /\ n = 0 /\ grouped = <<>>
              /\ dateStr = ymdNY(addDays(loop_d, -1))

\* C29: findLastTradingDayNY(maxBack) terminates, makes no grouped fetch
\* after the first one that returned rows and at most maxBack of them, and
\* for maxBack <= 0 or NaN makes none and returns the empty fallback.
C29_WalkTerminatesWithinMaxBack ==
    /\ []WalkBounded
    /\ (pc = "fetchGrouped") ~> (pc \in {"aggs", "done"})

\* GET /historical/:symbol with a non-numeric days_back was answered without a
\* grouped fetch.
C29_Witness ==
    /\ req.route = "/historical/:symbol" /\ maxBack = NaN
    /\ pc = "done" /\ probes = <<>> /\ res.status = 200

\* ----------------------------------------------- claims on the probed dates
\* The New York date at the instant findLastTradingDayNY was called.
CallDate == ymdNY(addDays(loop_d, loop_i))

\* C30 as stated: the k-th fetch (k = 0, 1, ...) of a walk is for the New
\* York date k calendar days before the date of the call, and the date
\* returned after maxBack empty answers is one calendar day before the
\* current New York date.
C30_ProbesWalkCalendarDays ==
    /\ \A k \in 1..Len(probes) : probes[k].dateStr.v = CallDate.v - (k - 1)
    /\ (pc = "done" /\ Len(probes) = MaxBack /\ \A k \in 1..MaxBack : Empty(probes[k])) =>
          dateStr.v = ymdNY(now).v - 1

\* ------------------------------------------------------ claims on the caches
\* C23 as stated: a lookup that finds an entry stored at t with ttl returns
\* its value if and only if the clock is below t + ttl.
C23_ReturnedIffWithinTtl ==
    got.hit => (got.val # Null <=> got.at < got.expires)

\* The keys of a Map, and its entries as a set.
Keys(map) == {map[j].key : j \in 1..Len(map)}
Entries(map) == {map[j] : j \in 1..Len(map)}

\* A set on a Map that holds max entries goes from map to after as stated:
\* for a new key exactly one entry is gone, none of the others expired
\* before it, and the rest is kept; for a key of the Map no other entry is
\* touched. In both cases the entry of key is the one just set.
SetAtCapacity(map, after, max, key, val, ttl) ==
    LET e == [key |-> key, val |-> val, exp |-> clock + ttl]
    IN  Len(map) = max =>
          /\ e \in Entries(after)
          /\ IF key \in Keys(map)
             THEN Entries(after) \ {e} = Entries(map) \ {Map_get(map, key)}
             ELSE \E victim \in Entries(map) :
                    /\ \A other \in Entries(map) : victim.exp <= other.exp
                    /\ Entries(after) \ {e} = Entries(map) \ {victim}

\* C24: cacheSet and newsCacheSet on a full cache evict exactly one entry,
\* one of smallest expiry, for a new key, and only overwrite for a key the
\* cache holds.
C24_EvictsSmallestExpiry ==
    [][\A key \in CacheKeys, val \in CacheVals, ttl \in Ttls :
        /\ cacheSet(key, val, ttl) =>
              SetAtCapacity(FUND_CACHE, FUND_CACHE', FUND_CACHE_MAX, key, val, ttl)
        /\ newsCacheSet(key, val, ttl) =>
              SetAtCapacity(NEWS_CACHE, NEWS_CACHE', NEWS_CACHE_MAX, key, val, ttl)]_vars

\* cacheSet has made room in the full fundamentals cache for a new key,
\* which was then found.
C24_Witness ==
    /\ put.op = "cacheSet" /\ put.minKey # Null
    /\ Len(FUND_CACHE) = FUND_CACHE_MAX
    /\ got.op = "cacheGet" /\ got.key = put.key /\ got.val # Null

\* C25: neither cache of part_006 ever holds more entries than its capacity.
C25_WithinCapacity ==
    /\ Len(FUND_CACHE) <= FUND_CACHE_MAX
    /\ Len(NEWS_CACHE) <= NEWS_CACHE_MAX

\* newsCacheSet has made room in the full news cache, and the key it deleted
\* is no longer found.
C25_Witness ==
    /\ put.op = "newsCacheSet" /\ put.minKey # Null
    /\ Len(NEWS_CACHE) = NEWS_CACHE_MAX
    /\ got.op = "newsCacheGet" /\ got.key = put.minKey /\ ~got.hit

\* An entry that a lookup at this instant would not return.
Expired(e) == e.exp < clock

\* The entries of map whose keys after no longer holds.
Evicted(map, after) == {e \in Entries(map) : e.key \notin Keys(after)}

\* C38: an entry that cacheSet or newsCacheSet evicts is expired whenever the
\* cache holds an expired entry; that is, a live entry is evicted only if
\* every entry of the cache is live.
C38_ExpiredEvictedFirst ==
    [][\A key \in CacheKeys, val \in CacheVals, ttl \in Ttls :
        /\ cacheSet(key, val, ttl) =>
              \A e \in Evicted(FUND_CACHE, FUND_CACHE') :
                  (\E x \in Entries(FUND_CACHE) : Expired(x)) => Expired(e)
        /\ newsCacheSet(key, val, ttl) =>
              \A e \in Evicted(NEWS_CACHE, NEWS_CACHE') :
                  (\E x \in Entries(NEWS_CACHE) : Expired(x)) => Expired(e)]_vars

\* cacheSet has evicted an expired entry from the full fundamentals cache
\* and has kept a live one that was stored before it.
C38_Witness ==
    /\ put.op = "cacheSet" /\ put.minKey # Null /\ put.minExp < clock
    /\ \E j \in 1..Len(FUND_CACHE) :
          FUND_CACHE[j].key # put.key /\ ~Expired(FUND_CACHE[j])

\* ------------------------------------------------ claims on the news route
\* The requests of ip that the limiter let pass in the minute starting at a.
AdmittedIn(ip, a) ==
    {k \in 1..Len(newsLog) :
        /\ newsLog[k].ip = ip /\ newsLog[k].status # 429
        /\ a <= newsLog[k].at /\ newsLog[k].at < a + NEWS_RATE_WINDOW_MS}

\* C26 as stated: in any one-minute interval the limiter lets at most
\* NEWS_RATE_MAX requests of one IP pass, and a request answered 429 made no
\* upstream call.
C26_AtMostMaxPerMinute ==
    /\ \A ip \in Ips, a \in 0..MaxNewsClock : Cardinality(AdmittedIn(ip, a)) <= NEWS_RATE_MAX
    /\ \A k \in 1..Len(newsLog) : newsLog[k].status = 429 => ~newsLog[k].upstream

\* C34 as stated: the news rate map never holds more than NEWS_RATE_MAP_MAX
\* entries.
C34_RateMapWithinCap == Len(newsRateMap) <= NEWS_RATE_MAP_MAX

\* -------------------------------------------- claims on the shared tickers
\* The symbols of the latest response's ticker list.
ReturnedSymbols == {res.body.tickers[j].symbol : j \in 1..Len(res.body.tickers)}

\* C27: a GET served at or after 18:00 New York time returns no tickers, and
\* a GET served before 18:00 returns the tickers whose latest POST
\* succeeded before 18:00 of the same New York date and was not deleted,
\* and no ticker of an earlier date.
C27_ClearedAtCloseAndKeptBefore ==
    served.method = "GET" =>
        IF getHours(served.at) >= MarketClose
        THEN res.body.tickers = <<>>
        ELSE \A t \in ValidTickers :
                t \in ReturnedSymbols <=>
                    /\ posted[t] # NotPosted
                    /\ ymdNY(posted[t]) = ymdNY(served.at)
                    /\ getHours(posted[t]) < MarketClose

\* A GET before 18:00 has returned a ticker posted an hour or more earlier.
C27_Witness ==
    /\ served.method = "GET" /\ getHours(served.at) < MarketClose
    /\ \E t \in ValidTickers :
          posted[t] # NotPosted /\ posted[t] < served.at /\ t \in ReturnedSymbols

\* The reset of the trading day is due.
ResetDue == ymdNY(now) # currentTradingDay \/ getHours(now) >= MarketClose

\* Only a developer-mode POST with a valid symbol puts an entry into the
\* set.
OnlyDevelopersAdd ==
    Entries(sharedTickers') \ Entries(sharedTickers) # {} =>
        \E email \in Emails, symbol \in BodySymbols :
            /\ isDeveloperMode(email) /\ validTicker(toUpperCase_trim(symbol))
            /\ shared_post(email, symbol)

\* C28 as stated: a POST that is not in developer mode is answered 403 and
\* leaves the set of shared tickers as it was, and only a developer-mode
\* POST with a valid symbol puts a ticker into the set.
C28_Original ==
    [][/\ \A email \in Emails, symbol \in BodySymbols :
            (shared_post(email, symbol) /\ ~isDeveloperMode(email)) =>
                res'.status = 403 /\ sharedTickers' = sharedTickers
       /\ OnlyDevelopersAdd]_vars

\* C28, amended: a POST that is not in developer mode is answered 403 and
\* adds nothing: it leaves the set as it was, or empty if the reset of the
\* trading day was due; only a developer-mode POST with a valid symbol puts
\* a ticker into the set.
C28_RefusedPostAddsNothing ==
    [][/\ \A email \in Emails, symbol \in BodySymbols :
            (shared_post(email, symbol) /\ ~isDeveloperMode(email)) =>
                /\ res'.status = 403
                /\ IF ResetDue THEN sharedTickers' = <<>> ELSE sharedTickers' = sharedTickers
       /\ OnlyDevelopersAdd]_vars

\* A POST not in developer mode was answered 403 and the set still holds a
\* ticker.
C28_Witness ==
    /\ served.method = "POST" /\ res.status = 403
    /\ sharedTickers # <<>>

\* ------------------------------------------------ claims on the enrichment
\* The fields that the enrichment assigns to a row.
EnrichmentFields == {"sector", "sicCode", "marketCap", "sharesOutstanding"}

\* C21: while the rows of one gainers request are enriched, at most 6 calls
\* of the reference-data endpoint are outstanding, however many rows there
\* are.
C21_AtMostSixLookupsInFlight == Cardinality(inflight) <= 6

\* Of seven rows every one has been taken by a runner, and six calls are
\* outstanding.
C21_Witness ==
    /\ pc = "enrich" /\ Len(gainers_data.results) = 7
    /\ enrich_i = 7 /\ Cardinality(inflight) = 6

\* C22: a lookup that fails for one row neither stops the enrichment of the
\* other rows nor fails the request: once the request is answered, the
\* answer is the rows with status 200, every row has been looked up, a row
\* whose lookup failed has none of the enrichment fields and every other row
\* has them all.
C22_FailedLookupIsSkipped ==
    (pc = "done" /\ includeFund /\ gainers_data.results # <<>>) =>
        /\ res.status = 200 /\ res.body = gainers_data
        /\ \A k \in 1..Len(gainers_data.results) :
              /\ enrich_out[k] \in {"null", "undefined"}
              /\ enrich_out[k] = "null" =>
                    DOMAIN gainers_data.results[k] \cap EnrichmentFields = {}
              /\ enrich_out[k] = "undefined" =>
                    EnrichmentFields \subseteq DOMAIN gainers_data.results[k]

\* A request of seven rows is answered after the first lookup to be answered
\* failed and every other row was enriched.
C22_Witness ==
    /\ pc = "done" /\ res.status = 200 /\ Len(res.body.results) = 7
    /\ Len(enrich_out) = 7
    /\ \E k \in 1..7 :
          /\ enrich_out[k] = "null"
          /\ \A j \in (1..7) \ {k} :
                /\ enrich_out[j] = "undefined"
                /\ EnrichmentFields \subseteq DOMAIN res.body.results[j]

\* ------------------------------------------- claims on the two strategies
\* The outbound calls of the request that are outstanding.
InFlight ==
    (IF pc = "snapshot" THEN {"snapshot"} ELSE {})
        \cup (IF pc = "fetchGrouped" THEN {"grouped"} ELSE {})

\* C31: in a request to GET /gainers or its alias, no grouped fetch has been
\* issued while the snapshot call is outstanding; a grouped fetch is
\* outstanding or has been made only once the snapshot call has completed,
\* by throwing; the two calls are never outstanding together; when the
\* snapshot call returned, no grouped fetch is made and the envelope's
\* source is "snapshot", and every other envelope's source is "grouped".
C31_StrategiesSequential ==
    req.route \in GainersRoutes =>
        /\ "snapshot" \in InFlight => (snapshot = Pending /\ probes = <<>>)
        /\ ("grouped" \in InFlight \/ probes # <<>>) => snapshot.out = "throws"
        /\ Cardinality(InFlight) <= 1
        /\ snapshot.out = "returns" =>
              /\ probes = <<>> /\ InFlight = {}
              /\ res.status = 200 /\ res.body.source = "snapshot"
        /\ (pc = "done" /\ res.status = 200 /\ snapshot.out # "returns") =>
              res.body.source = "grouped"

\* The snapshot call threw, two grouped fetches followed it one after the
\* other, and the envelope of the grouped strategy was sent.
C31_Witness ==
    /\ req.route = "/gainers" /\ pc = "done"
    /\ snapshot.out = "throws" /\ Len(probes) = 2
    /\ res.status = 200 /\ res.body.source = "grouped"

\* ------------------------------------------ claims on the snapshot strategy
\* C32 as stated: every row of the snapshot strategy's results has a ticker,
\* a last price, a previous close and a pctChange, and its change and
\* pctChange are there only if both prices are.
C32_SnapshotRowsComplete ==
    (Answered /\ res.body.source = "snapshot") =>
        \A k \in 1..Len(res.body.results) :
            LET row == res.body.results[k]
            IN  /\ row.ticker # "" /\ row.pctChange # Undefined
                /\ row.last # Undefined /\ row.previousClose # Undefined
                /\ (row.change # Undefined \/ row.pctChange # Undefined) =>
                       (row.last # Undefined /\ row.previousClose # Undefined)

\* ------------------------------------------------ claims on message order
\* C33: in server.js a subscriber's received messages grow only at the end
\* and only by the frame the upstream has just pushed, so each subscriber
\* has the frames in the order the upstream sent them; and an upstream
\* socket's sent messages grow only at the end, a subscriber's message only
\* in the step in which that subscriber sent it, so the forwarded messages
\* of one subscriber are in the order it sent them.
C33_OrderPreserved ==
    [][(impl = "server_js") =>
          /\ \A c \in ClientIds :
                IF FrameStep
                THEN cl'[c].recv \in {cl[c].recv, Append(cl[c].recv, LastFrame)}
                ELSE cl'[c].recv = cl[c].recv
          /\ \A s \in SocketIds :
                /\ Len(up'[s].sent) >= Len(up[s].sent)
                /\ SubSeq(up'[s].sent, 1, Len(up[s].sent)) = up[s].sent
                /\ IF MsgStep
                   THEN up'[s].sent \in
                            {up[s].sent,
                             Append(up[s].sent, [msg |-> LastMsg[2], from |-> LastMsg[1]])}
                   ELSE FromClients(up'[s].sent) = FromClients(up[s].sent)]_vars

\* A subscriber has received two different frames, and the upstream socket
\* has been sent a subscriber's message after the auth message.
C33_Witness ==
    /\ impl = "server_js"
    /\ \E c \in ClientIds :
          Len(cl[c].recv) = 2 /\ cl[c].recv[1] # cl[c].recv[2]
    /\ \E s \in SocketIds : Len(FromClients(up[s].sent)) = 1

\* ------------------------------------------------- claims on the merged list
\* GET /api/gainers has answered with a list of tickers.
Merged == pc = "done" /\ req.route = "/api/gainers" /\ res.status = 200

\* The tickers that the snapshot strategy's rows carry.
SnapshotTickers ==
    IF snapshot.out # "returns" THEN {}
    ELSE LET rows == computeSnapshotGainers(snapshot.rows, limit, snapshot.at).results
         IN  {rows[k].ticker : k \in 1..Len(rows)} \ {""}

\* C35 as stated: the list of GET /api/gainers has no ticker twice and at
\* most limit entries (none for a limit below 0), limit being at most 500;
\* every ticker of the snapshot strategy stands before every ticker of the
\* grouped strategy; and the grouped strategy is called only when the
\* snapshot strategy gave fewer than limit tickers.
C35_MergedList ==
    Merged =>
        LET list == res.body.tickers
        IN  /\ \A a, b \in 1..Len(list) : a # b => list[a].ticker # list[b].ticker
            /\ limit.n <= SliceCap
            /\ Len(list) <= (IF limit.n < 0 THEN 0 ELSE limit.n)
            /\ \A a, b \in 1..Len(list) :
                  (a < b /\ list[b].ticker \in SnapshotTickers) =>
                      list[a].ticker \in SnapshotTickers
            /\ probes # <<>> => Cardinality(SnapshotTickers) < limit.n

\* ------------------------------------------- claims on a failing grouped fetch
\* C36: a fetchGrouped call that throws is the walk's last: no call comes
\* after it, the walk has not moved on to an earlier date and has returned
\* neither rows nor the empty fallback, and the handler, which has no catch
\* around the walk, has answered with the error payload.
C36_FetchErrorPropagates ==
    /\ \A k \in 1..(Len(probes) - 1) : probes[k].answer.out # "throws"
    /\ GroupedThrew =>
          /\ pc = "done" /\ res = Error500
          /\ loop_i = Len(probes) - 1
          /\ dateStr = NoDate /\ grouped = <<>>

\* The first fetch returned no rows, the second threw, and GET /gainers
\* answered with the error payload.
C36_Witness ==
    /\ req.route = "/gainers" /\ Len(probes) = 2
    /\ Empty(probes[1]) /\ GroupedThrew
    /\ pc = "done" /\ res.status = 500

\* --------------------------------------------- claims on the auth message
\* C37: on every upstream socket of server.js and of part_006, a message of
\* a subscriber stands in the sent log only after the relay's auth message,
\* which is the first message of the log.
C37_AuthBeforeForward ==
    impl \in {"server_js", "part_006"} =>
        \A s \in SocketIds : \A i \in 1..Len(up[s].sent) :
            up[s].sent[i].from # 0 =>
                i > 1 /\ up[s].sent[1] = [msg |-> RelayAuth, from |-> 0]

\* Two subscriber messages have arrived, one of them before the upstream
\* socket opened: the socket's log is the auth message followed by the other
\* one.
C37_Witness ==
    /\ nMsgs = 2
    /\ \E s \in SocketIds :
          /\ Len(up[s].sent) = 2
          /\ up[s].sent[1] = [msg |-> RelayAuth, from |-> 0]
          /\ up[s].sent[2].from # 0

\* ------------------------------------------------- claims on limitedMap
\* out[k] of limitedMap, "empty" for an index that has no value yet.
Out(out, k) == IF k \in DOMAIN out THEN out[k] ELSE "empty"

\* The indices that limitedMap's runners have taken in this step.
Taken == (enrich_i + 1)..enrich_i'

\* C39: limitedMap calls the worker once for every item: the runners take
\* the indices one after the other, none twice, and an index becomes
\* outstanding only in the step that takes it; the outcome of a call is
\* stored at its own index, once, null if the call failed; and limitedMap
\* resolves (the handler goes on to its response) only when every index has
\* been taken and no call is outstanding.
C39_EveryItemOnce ==
    [][/\ enrich_i' >= enrich_i
       /\ inflight' \ inflight \subseteq Taken
       /\ \A k \in DOMAIN enrich_out' :
             /\ (k <= enrich_i') <=> (k \in inflight' \/ enrich_out'[k] # "empty")
             /\ ~(k \in inflight' /\ enrich_out'[k] # "empty")
             /\ Out(enrich_out, k) # "empty" => enrich_out'[k] = enrich_out[k]
             /\ (Out(enrich_out, k) = "empty" /\ enrich_out'[k] # "empty") =>
                    k \in inflight \cup Taken
       /\ \A idx \in inflight, a \in OverviewAnswers :
             overview_answered(idx, a) =>
                 enrich_out'[idx] = IF a.out = "throws" THEN "null" ELSE "undefined"
       /\ (pc' = "done" /\ enrich_out' # <<>>) =>
             /\ inflight' = {} /\ enrich_i' = Len(enrich_out')
             /\ Len(enrich_out') = Len(gainers_data'.results)
             /\ \A k \in DOMAIN enrich_out' : enrich_out'[k] # "empty"]_vars

\* limitedMap has resolved for seven items, one more than it has runners:
\* the calls for the third and the seventh failed and have null at their
\* indices, the others have their results.
C39_Witness ==
    /\ pc = "done" /\ Len(enrich_out) = 7 /\ enrich_i = 7 /\ inflight = {}
    /\ enrich_out[3] = "null" /\ enrich_out[7] = "null"
    /\ \A k \in {1, 2, 4, 5, 6} : enrich_out[k] = "undefined"

\* ------------------------------------------ claims on the per-client relay
\* close() has been called on socket record s, or s has gone further.
Closing(s) == s.rs \in {"CLOSING", "CLOSED"}

\* The pair of client c: its own socket and its upstream socket.
Paired(c) == cl[c].upstream # 0

\* A step in which a close or error handler of client c's pair runs.
CleanupStep(c) ==
    \/ P6_wsClient_close(c) \/ P6_wsClient_error(c)
    \/ Paired(c) /\ (P6_upstream_close(cl[c].upstream) \/ P6_upstream_error(cl[c].upstream))

\* C40: in the per-client relay, a close or an error of a client's socket or
\* of its upstream socket leaves both closing or closed and every other
\* client's sockets as they were; once one of the pair is closing, both are
\* CLOSED in the end; and a pair that is CLOSED runs no handler any more.
C40_BothClosed ==
    /\ [][\A c \in ClientIds :
            /\ CleanupStep(c) =>
                  /\ Closing(cl'[c]) /\ Closing(up'[cl[c].upstream])
                  /\ \A d \in ClientIds \ {c} : cl'[d] = cl[d]
                  /\ \A t \in SocketIds \ {cl[c].upstream} : up'[t] = up[t]
            /\ (Paired(c) /\ cl[c].rs = "CLOSED" /\ up[cl[c].upstream].rs = "CLOSED") =>
                  cl'[c] = cl[c] /\ up'[cl[c].upstream] = up[cl[c].upstream]]_vars
    /\ \A c \in ClientIds :
          (Paired(c) /\ (Closing(cl[c]) \/ Closing(up[cl[c].upstream])))
              ~> (cl[c].rs = "CLOSED" /\ up[cl[c].upstream].rs = "CLOSED")

\* The first client's upstream socket was closed while still connecting and
\* both are CLOSED, while the second client's sockets are open and have
\* carried a frame.
C40_Witness ==
    /\ cl[1].rs = "CLOSED" /\ up[1].rs = "CLOSED" /\ up[1].sent = <<>>
    /\ cl[2].rs = "OPEN" /\ up[2].rs = "OPEN" /\ Len(cl[2].recv) = 1

====
